---- MODULE Spec2Model ----
(***************************************************************************)
(* Inventory fulfillment and stock-deduction engine of the store dashboard *)
(* (server routes + DatabaseStorage): material catalog, mapping table,     *)
(* stock ledger, processed-order markers, purchase-order receiving, the    *)
(* fulfillment calculator and the id normalizer.                           *)
(*                                                                         *)
(* Every storage call of a route handler is an await, hence a point where  *)
(* another request may run; the synchronous code between two awaits is one *)
(* atomic step.  A step of the model is "the synchronous code up to and    *)
(* including the next storage call".                                       *)
(***************************************************************************)
EXTENDS Integers, Sequences, FiniteSets, TLC

VARIABLES
  rawMaterials,            \* table raw_materials: id -> row
  rawMaterialVariations,   \* table raw_material_variations: id -> row
  materialProductMappings, \* table material_product_mappings, rows in id order
  stockLedger,             \* table stock_ledger, rows in insertion order
  processedOrders,         \* table processed_orders, rows in insertion order
  purchaseOrders,          \* table purchase_orders: id -> row
  purchaseOrderItems,      \* table purchase_order_items: id -> row
  adj,                     \* the stock-adjustment request in flight
  proc,                    \* the process-order-stock requests
  recv,                    \* the purchase-order receive requests
  calc,                    \* the fulfillment-status request
  norm,                    \* applications of normalizeId
  requests                 \* number of requests accepted so far

vars == <<rawMaterials, rawMaterialVariations, materialProductMappings,
          stockLedger, processedOrders, purchaseOrders, purchaseOrderItems,
          adj, proc, recv, calc, norm, requests>>

dbVars == <<rawMaterials, rawMaterialVariations, materialProductMappings,
            stockLedger, processedOrders, purchaseOrders, purchaseOrderItems>>

----------------------------------------------------------------------------
(* Values *)

\* SQL NULL / JS null / undefined of an id-valued field (ids are serial, > 0).
Null == -1

\* JS truthiness of an id-valued field: null, undefined and 0 are falsy.
Truthy(x) == x # Null /\ x # 0

\* JS `x || null`.
OrNull(x) == IF Truthy(x) THEN x ELSE Null

Max(a, b) == IF a >= b THEN a ELSE b
Min(a, b) == IF a <= b THEN a ELSE b

\* Bounds of the model.
MaxQuantity == 2      \* largest quantity a request body carries
MaxRequests == 2      \* requests the server accepts in one run
MaxStockLevel == 12   \* largest level a stock-take or a direct stock write supplies

\* A JSON body value that the handlers use as a number: a number or a string
\* of decimal digits (express.json() hands over whatever the caller sent).
JsNumber(n) == [t |-> "number", v |-> n]
JsString(n) == [t |-> "string", v |-> n]   \* the string String(n)

\* Number of decimal digits of n >= 0.
RECURSIVE Digits(_)
Digits(n) == IF n < 10 THEN 1 ELSE 1 + Digits(n \div 10)

RECURSIVE Pow10(_)
Pow10(k) == IF k = 0 THEN 1 ELSE 10 * Pow10(k - 1)

\* JS `a + b` with a an integer: numeric addition when b is a number, string
\* concatenation String(a) + b when b is a string.  The result is then
\* written to an integer column, which reads the digits back as an integer.
JsPlus(a, b) ==
  IF b.t = "number" THEN a + b.v
  ELSE IF a >= 0 THEN a * Pow10(Digits(b.v)) + b.v
       ELSE a * Pow10(Digits(b.v)) - b.v

\* A body value written to an integer column.
ToInteger(b) == b.v

----------------------------------------------------------------------------
(* Catalog at start-up *)

\* raw_materials: 1 is a simple material, 2 a variable material; column
\* woocommerce_id is the id the material had in the external catalog.
InitRawMaterials ==
  (1 :> [id |-> 1, woocommerceId |-> 51, type |-> "simple",
         stockQuantity |-> 10, manageStock |-> TRUE, isActive |-> TRUE]) @@
  (2 :> [id |-> 2, woocommerceId |-> 52, type |-> "variable",
         stockQuantity |-> 0, manageStock |-> TRUE, isActive |-> TRUE])

\* raw_material_variations of material 2; variation 22 is not stock-managed.
InitRawMaterialVariations ==
  (21 :> [id |-> 21, materialId |-> 2, woocommerceId |-> 61,
          stockQuantity |-> 5, manageStock |-> TRUE, isActive |-> TRUE]) @@
  (22 :> [id |-> 22, materialId |-> 2, woocommerceId |-> 62,
          stockQuantity |-> 1, manageStock |-> FALSE, isActive |-> TRUE])

Mapping(p, v, m, mv, q) ==
  [productId |-> p, variationId |-> v, materialProductId |-> m,
   materialVariationId |-> mv, quantityUsed |-> q]

\* material_product_mappings.  Product 100 is a simple product, 200 a variable
\* product with variations 201 and 202, 300 and 400 simple products; product
\* 500 has no mapping.  Material 9 and variation 29 are rows that do not exist;
\* product 700 maps to variation 29 of material 1, which has no variations;
\* product 800 maps to material 1 and to variation 21 of material 2, each once
\* by local id and once by external id.
InitMappings ==
  << Mapping(100, Null, 1, Null, 2),
     Mapping(100, Null, 9, Null, 1),
     Mapping(200, 201, 2, 21, 1),
     Mapping(200, 202, 2, 29, 1),
     Mapping(200, 202, 1, Null, 1),
     Mapping(300, Null, 2, 22, 1),
     Mapping(300, Null, 51, Null, 1),
     Mapping(400, Null, 2, Null, 1),
     Mapping(600, Null, 9, Null, 1),
     Mapping(700, Null, 1, 29, 1),
     Mapping(800, Null, 1, Null, 1),
     Mapping(800, Null, 51, Null, 1),
     Mapping(800, Null, 2, 21, 1),
     Mapping(800, Null, 52, 61, 1) >>

----------------------------------------------------------------------------
(* DatabaseStorage *)

\* The result of a row lookup that found nothing (`result || null`).
NoRow == [id |-> Null]

IsNull(row) == row.id = Null

\* SELECT ... WHERE id = :id LIMIT 1 (the isActive flag is not consulted).
getLocalRawMaterial(id) ==
  IF id \in DOMAIN rawMaterials THEN rawMaterials[id] ELSE NoRow

getLocalRawMaterialVariation(id) ==
  IF id \in DOMAIN rawMaterialVariations THEN rawMaterialVariations[id] ELSE NoRow

\* UPDATE ... SET stock_quantity = :newStock WHERE id = :id (no row: no change).
updateLocalRawMaterialStock(tbl, id, newStock) ==
  IF id \in DOMAIN tbl THEN [tbl EXCEPT ![id].stockQuantity = newStock] ELSE tbl

updateLocalRawMaterialVariationStock(tbl, id, newStock) ==
  IF id \in DOMAIN tbl THEN [tbl EXCEPT ![id].stockQuantity = newStock] ELSE tbl

\* Mutant: the new stock is floored at zero.
LedgerEntry_floor(m, mv, oid, onum, change, prev, new, reason) ==
  [materialProductId |-> m, materialVariationId |-> mv, orderId |-> oid,
   orderNumber |-> onum, quantityChange |-> change, previousStock |-> prev,
   newStock |-> Max(0, new), reason |-> reason]

LedgerEntry(m, mv, oid, onum, change, prev, new, reason) ==
  [materialProductId |-> m, materialVariationId |-> mv, orderId |-> oid,
   orderNumber |-> onum, quantityChange |-> change, previousStock |-> prev,
   newStock |-> new, reason |-> reason]

\* INSERT INTO stock_ledger.
createStockLedgerEntry(tbl, entry) == Append(tbl, entry)

----------------------------------------------------------------------------
(* Stock adjustment routes: add-stock and set-stock, for a material or a   *)
(* variation, in the /api/local-materials and the /api/raw-materials       *)
(* families.  Each reads the row, writes the stock, then writes the ledger.*)

AdjIdle == [pc |-> "idle", status |-> 0, entry |-> NoRow, isVariation |-> FALSE,
            newStockLevel |-> Null]

\* A request is accepted: the run serves at most MaxRequests of them.
Accept == requests < MaxRequests /\ requests' = requests + 1

MaterialParams == {1, 2, 9}
VariationParams == {21, 29}
Quantities == {JsNumber(n) : n \in 1..MaxQuantity} \cup {JsString(n) : n \in 1..MaxQuantity}
StockLevels == {0, MaxStockLevel}

\* The handler's validation of body.quantity.
\* local family: typeof quantity !== 'number' || quantity <= 0
\* raw family:   !quantity || quantity <= 0
QuantityRejected(family, q) ==
  IF family = "local" THEN q.t # "number" \/ q.v <= 0 ELSE q.v <= 0

\* Mutant: the change of a stock take with the operands swapped.
StockTakeChange_swapped(newStockLevel, previousStock) == previousStock - newStockLevel

\* const quantityChange = newStockLevel - previousStock
StockTakeChange(newStockLevel, previousStock) == newStockLevel - previousStock

\* Begin an adjustment of material `id`: validation, row lookup, and the
\* computation of previousStock and newStock.
AdjustMaterialBegin(family, kind, id, q, level) ==
  /\ adj.pc = "idle"
  /\ Accept
  /\ LET material == getLocalRawMaterial(id)
         invalid == IF kind = "add" THEN QuantityRejected(family, q) ELSE level < 0
     IN IF invalid THEN adj' = [AdjIdle EXCEPT !.status = 400]
        ELSE IF IsNull(material) THEN adj' = [AdjIdle EXCEPT !.status = 404]
        ELSE LET previousStock == material.stockQuantity
                 newStock == IF kind = "add" THEN JsPlus(previousStock, q) ELSE level
                 change == IF kind = "add" THEN ToInteger(q)
                           ELSE StockTakeChange(level, previousStock)
                 reason == IF kind = "set" THEN "stock_take"
                           ELSE IF family = "local" THEN "manual" ELSE "stock_in"
             IN adj' = [pc |-> "update", status |-> 0, isVariation |-> FALSE,
                        newStockLevel |-> IF kind = "set" THEN level ELSE Null,
                        entry |-> LedgerEntry(id, Null, Null, Null, change,
                                              previousStock, newStock, reason)]
  /\ UNCHANGED <<dbVars, proc, recv, calc, norm>>

\* Begin an adjustment of variation `variationId`.  The local family also
\* loads the material and requires variation.materialId = materialId; the raw
\* family looks up the variation alone and copies :productId to the ledger.
AdjustVariationBegin(family, kind, materialId, variationId, q, level) ==
  /\ adj.pc = "idle"
  /\ Accept
  /\ LET material == getLocalRawMaterial(materialId)
         variation == getLocalRawMaterialVariation(variationId)
         invalid == IF kind = "add" THEN QuantityRejected(family, q) ELSE level < 0
         missing == IF family = "local"
                    THEN \/ IsNull(material)
                         \/ IsNull(variation)
                         \/ variation.materialId # materialId
                    ELSE IsNull(variation)
     IN IF invalid THEN adj' = [AdjIdle EXCEPT !.status = 400]
        ELSE IF missing THEN adj' = [AdjIdle EXCEPT !.status = 404]
        ELSE LET previousStock == variation.stockQuantity
                 newStock == IF kind = "add" THEN JsPlus(previousStock, q) ELSE level
                 change == IF kind = "add" THEN ToInteger(q)
                           ELSE StockTakeChange(level, previousStock)
                 reason == IF kind = "set" THEN "stock_take"
                           ELSE IF family = "local" THEN "manual" ELSE "stock_in"
             IN adj' = [pc |-> "update", status |-> 0, isVariation |-> TRUE,
                        newStockLevel |-> IF kind = "set" THEN level ELSE Null,
                        entry |-> LedgerEntry(materialId, variationId, Null, Null,
                                              change, previousStock, newStock, reason)]
  /\ UNCHANGED <<dbVars, proc, recv, calc, norm>>

\* await storage.updateLocalRawMaterial[Variation]Stock(id, newStock)
AdjustUpdate ==
  /\ adj.pc = "update"
  /\ IF adj.isVariation
     THEN /\ rawMaterialVariations' = updateLocalRawMaterialVariationStock(
                 rawMaterialVariations, adj.entry.materialVariationId, adj.entry.newStock)
          /\ UNCHANGED rawMaterials
     ELSE /\ rawMaterials' = updateLocalRawMaterialStock(
                 rawMaterials, adj.entry.materialProductId, adj.entry.newStock)
          /\ UNCHANGED rawMaterialVariations
  /\ adj' = [adj EXCEPT !.pc = "ledger"]
  /\ UNCHANGED <<materialProductMappings, stockLedger, processedOrders,
                 purchaseOrders, purchaseOrderItems, proc, recv, calc, norm, requests>>

\* await storage.createStockLedgerEntry(...); res.json({success: true, ...})
AdjustLedger ==
  /\ adj.pc = "ledger"
  /\ stockLedger' = createStockLedgerEntry(stockLedger, adj.entry)
  /\ adj' = [AdjIdle EXCEPT !.status = 200]
  /\ UNCHANGED <<rawMaterials, rawMaterialVariations, materialProductMappings,
                 processedOrders, purchaseOrders, purchaseOrderItems,
                 proc, recv, calc, norm, requests>>

\* PATCH /api/local-materials/:id/stock
PatchMaterialStock(id, stockQuantity) ==
  /\ adj.pc = "idle"
  /\ Accept
  /\ rawMaterials' = updateLocalRawMaterialStock(rawMaterials, id, stockQuantity)
  /\ adj' = [AdjIdle EXCEPT !.status = IF id \in DOMAIN rawMaterials THEN 200 ELSE 404]
  /\ UNCHANGED <<rawMaterialVariations, materialProductMappings, stockLedger,
                 processedOrders, purchaseOrders, purchaseOrderItems,
                 proc, recv, calc, norm>>

\* PATCH /api/local-material-variations/:id/stock
PatchVariationStock(id, stockQuantity) ==
  /\ adj.pc = "idle"
  /\ Accept
  /\ rawMaterialVariations' =
       updateLocalRawMaterialVariationStock(rawMaterialVariations, id, stockQuantity)
  /\ adj' = [AdjIdle EXCEPT !.status = IF id \in DOMAIN rawMaterialVariations THEN 200 ELSE 404]
  /\ UNCHANGED <<rawMaterials, materialProductMappings, stockLedger,
                 processedOrders, purchaseOrders, purchaseOrderItems,
                 proc, recv, calc, norm>>

----------------------------------------------------------------------------
(* getLocalRawMaterials, getMaterialMappingsForProduct, processed orders   *)

\* The elements of a finite set of integers in ascending order.
RECURSIVE Ascending(_)
Ascending(S) ==
  IF S = {} THEN << >>
  ELSE LET m == CHOOSE x \in S : \A y \in S : x <= y
       IN <<m>> \o Ascending(S \ {m})

\* storage.getLocalRawMaterials(): the active materials ordered by name (the
\* model's names sort like the ids), each with its active variations, and
\* variations undefined (here the empty sequence) when it has none.
getLocalRawMaterials(materialsTbl, variationsTbl) ==
  LET activeIds == {id \in DOMAIN materialsTbl : materialsTbl[id].isActive}
      variationsOf(id) ==
        Ascending({v \in DOMAIN variationsTbl :
                     variationsTbl[v].materialId = id /\ variationsTbl[v].isActive})
      row(id) ==
        [id |-> id,
         woocommerceId |-> materialsTbl[id].woocommerceId,
         type |-> materialsTbl[id].type,
         stockQuantity |-> materialsTbl[id].stockQuantity,
         manageStock |-> materialsTbl[id].manageStock,
         variations |-> [k \in 1..Len(variationsOf(id)) |->
                           variationsTbl[variationsOf(id)[k]]]]
      ids == Ascending(activeIds)
  IN [k \in 1..Len(ids) |-> row(ids[k])]

\* storage.getMaterialMappingsForProduct(productId, variationId): a truthy
\* variationId selects on product and variation, any other on the product alone.
getMaterialMappingsForProduct(tbl, productId, variationId) ==
  IF Truthy(variationId)
  THEN SelectSeq(tbl, LAMBDA m : m.productId = productId /\ m.variationId = variationId)
  ELSE SelectSeq(tbl, LAMBDA m : m.productId = productId)

\* Mutant: the lookup never finds the marker.
getProcessedOrder_never(tbl, orderId) == FALSE

\* storage.getProcessedOrder(orderId): is there a row for orderId.
getProcessedOrder(tbl, orderId) == \E k \in 1..Len(tbl) : tbl[k].orderId = orderId

\* Mutant: order_id without the unique constraint.
UniqueViolation_none(tbl, orderId) == FALSE

\* processed_orders.order_id is declared .unique(): the insert of a second row
\* for an order id raises a unique-constraint violation.
UniqueViolation(tbl, orderId) == \E k \in 1..Len(tbl) : tbl[k].orderId = orderId

\* storage.markOrderProcessed(data): INSERT INTO processed_orders.
markOrderProcessed(tbl, orderId, orderNumber) ==
  Append(tbl, [orderId |-> orderId, orderNumber |-> orderNumber])

----------------------------------------------------------------------------
(* POST /api/process-order-stock *)

Invocations == {1, 2}
OrderIds == {7, 8}
MaxFaults == 1     \* storage errors injected into one invocation

LineItem(p, v, q) == [product_id |-> p, variation_id |-> v, quantity |-> q]

\* The line-item lists a caller sends (variation_id 0: a simple product).
LineItemLists ==
  {<<LineItem(100, 0, q), LineItem(500, 0, 1)>> : q \in 1..MaxQuantity} \cup
  {<<LineItem(200, 201, q)>> : q \in 1..MaxQuantity} \cup
  { <<LineItem(200, 202, 1), LineItem(100, 0, 1)>>,
    <<LineItem(300, 0, 1)>>,
    <<LineItem(200, 0, 1)>>,
    <<LineItem(400, 0, 1)>>,
    <<LineItem(700, 0, 1)>>,
    <<LineItem(500, 0, 1), LineItem(100, 0, MaxQuantity)>> }

ProcIdle ==
  [pc |-> "idle", orderId |-> Null, lineItems |-> << >>, materialsMap |-> << >>,
   itemIndex |-> 0, mappings |-> << >>, mapIndex |-> 0, entry |-> NoRow,
   results |-> << >>, skippedItems |-> << >>, unmappedItems |-> << >>,
   failedUpdates |-> << >>, faults |-> 0, status |-> 0]

\* materialsMap.get(id): the prefetched material with that local id.
MapGet(materialsMap, id) ==
  IF \E k \in 1..Len(materialsMap) : materialsMap[k].id = id
  THEN materialsMap[CHOOSE k \in 1..Len(materialsMap) : materialsMap[k].id = id]
  ELSE NoRow

\* material.variations.find(v => v.id === id)
FindVariation(material, id) ==
  IF \E k \in 1..Len(material.variations) : material.variations[k].id = id
  THEN material.variations[CHOOSE k \in 1..Len(material.variations) :
                              material.variations[k].id = id]
  ELSE NoRow

\* Mutant: the prefetched object keeps the stock it was read with.
SetMaterialStock_stale(materialsMap, id, newStock) == materialsMap

\* material.stockQuantity = newStock on the prefetched object.
SetMaterialStock(materialsMap, id, newStock) ==
  [k \in 1..Len(materialsMap) |->
     IF materialsMap[k].id = id
     THEN [materialsMap[k] EXCEPT !.stockQuantity = newStock]
     ELSE materialsMap[k]]

\* variation.stockQuantity = newStock on the prefetched object.
SetVariationStock(materialsMap, id, variationId, newStock) ==
  [k \in 1..Len(materialsMap) |->
     IF materialsMap[k].id = id
     THEN [materialsMap[k] EXCEPT !.variations =
             [j \in 1..Len(@) |->
                IF @[j].id = variationId
                THEN [@[j] EXCEPT !.stockQuantity = newStock] ELSE @[j]]]
     ELSE materialsMap[k]]

\* Mutant: the loop ends after the current mapping.
AfterMapping_stop(p) ==
  [p EXCEPT !.pc = "mark", !.entry = NoRow, !.mappings = << >>, !.mapIndex = 0]

\* Control after the current mapping: the next mapping of the line item, else
\* the next line item, else the marker write.
AfterMapping(p) ==
  IF p.mapIndex < Len(p.mappings)
  THEN [p EXCEPT !.mapIndex = @ + 1, !.pc = "mapping", !.entry = NoRow]
  ELSE IF p.itemIndex < Len(p.lineItems)
       THEN [p EXCEPT !.itemIndex = @ + 1, !.pc = "item", !.entry = NoRow,
                      !.mappings = << >>, !.mapIndex = 0]
       ELSE [p EXCEPT !.pc = "mark", !.entry = NoRow, !.mappings = << >>, !.mapIndex = 0]

\* Mutant: a line item without mappings ends the loop.
AfterItem_stop(p) == [p EXCEPT !.pc = "mark"]

\* Control after a line item without mappings.
AfterItem(p) ==
  IF p.itemIndex < Len(p.lineItems)
  THEN [p EXCEPT !.itemIndex = @ + 1, !.pc = "item"]
  ELSE [p EXCEPT !.pc = "mark"]

\* await storage.getProcessedOrder(orderId) and the already-processed guard.
ProcessBegin(i, orderId, lineItems) ==
  /\ proc[i].pc = "idle"
  /\ \A j \in Invocations : j < i => proc[j].pc # "idle"   \* numbered by arrival
  /\ proc' = [proc EXCEPT ![i] =
       IF getProcessedOrder(processedOrders, orderId)
       THEN [ProcIdle EXCEPT !.pc = "done", !.orderId = orderId,
                             !.lineItems = lineItems, !.status = 400]
       ELSE [ProcIdle EXCEPT !.pc = "prefetch", !.orderId = orderId,
                             !.lineItems = lineItems]]
  /\ UNCHANGED <<dbVars, adj, recv, calc, norm, requests>>

\* await storage.getLocalRawMaterials(); materialsMap = new Map(...)
ProcessPrefetch(i) ==
  /\ proc[i].pc = "prefetch"
  /\ proc' = [proc EXCEPT ![i] =
       [proc[i] EXCEPT
          !.materialsMap = getLocalRawMaterials(rawMaterials, rawMaterialVariations),
          !.itemIndex = 1,
          !.pc = IF Len(proc[i].lineItems) = 0 THEN "mark" ELSE "item"]]
  /\ UNCHANGED <<dbVars, adj, recv, calc, norm, requests>>

\* await storage.getMaterialMappingsForProduct(item.product_id, item.variation_id)
ProcessItem(i) ==
  /\ proc[i].pc = "item"
  /\ LET p == proc[i]
         item == p.lineItems[p.itemIndex]
         mappings == getMaterialMappingsForProduct(
                       materialProductMappings, item.product_id, item.variation_id)
     IN proc' = [proc EXCEPT ![i] =
          IF Len(mappings) = 0
          THEN AfterItem([p EXCEPT !.unmappedItems = Append(@, item.product_id)])
          ELSE [p EXCEPT !.mappings = mappings, !.mapIndex = 1, !.pc = "mapping"]]
  /\ UNCHANGED <<dbVars, adj, recv, calc, norm, requests>>

\* What the synchronous part of one mapping iteration decides.
MappingPlan(p) ==
  LET item == p.lineItems[p.itemIndex]
      mapping == p.mappings[p.mapIndex]
      material == MapGet(p.materialsMap, mapping.materialProductId)
      isVariationMapping == mapping.materialVariationId # Null
      hasVariations == ~IsNull(material) /\ Len(material.variations) > 0
      variation == IF isVariationMapping /\ hasVariations
                   THEN FindVariation(material, mapping.materialVariationId)
                   ELSE NoRow
      useVariation == isVariationMapping /\ ~IsNull(variation)
      manageStock == IF useVariation THEN variation.manageStock ELSE material.manageStock
      quantityToDeduct == mapping.quantityUsed * item.quantity
      previousStock == IF useVariation THEN variation.stockQuantity
                       ELSE material.stockQuantity
      newStock == previousStock - quantityToDeduct
  IN IF IsNull(material)
     THEN [skip |-> "Material product no longer exists in inventory"]
     ELSE IF isVariationMapping /\ hasVariations /\ IsNull(variation)
     THEN [skip |-> "Material variation no longer exists in inventory"]
     ELSE IF ~manageStock
     THEN [skip |-> "Material does not have stock management enabled"]
     ELSE [skip |-> "",
           useVariation |-> useVariation,
           entry |-> LedgerEntry(mapping.materialProductId,
                                 OrNull(mapping.materialVariationId),
                                 p.orderId, p.orderId, 0 - quantityToDeduct,
                                 previousStock, newStock, "order")]

\* failedUpdates.push({productId, variationId, materialId, reason}); the reason
\* carries updateError.message, here the name of the storage call that threw.
FailedUpdate(p, error) ==
  [productId |-> p.lineItems[p.itemIndex].product_id,
   variationId |-> p.lineItems[p.itemIndex].variation_id,
   materialId |-> p.mappings[p.mapIndex].materialProductId,
   reason |-> error]

\* One mapping iteration up to and including
\* await storage.updateLocalRawMaterial[Variation]Stock(..., newStock).
ProcessMapping(i, ok) ==
  /\ proc[i].pc = "mapping"
  /\ LET p == proc[i]
         mapping == p.mappings[p.mapIndex]
         plan == MappingPlan(p)
     IN IF plan.skip # ""
        THEN /\ ok
             /\ proc' = [proc EXCEPT ![i] = AfterMapping(
                  [p EXCEPT !.skippedItems =
                     Append(@, [materialId |-> mapping.materialProductId,
                                reason |-> plan.skip])])]
             /\ UNCHANGED <<rawMaterials, rawMaterialVariations>>
        ELSE IF ~ok
        THEN \* the update throws: catch (updateError)
             /\ p.faults < MaxFaults
             /\ proc' = [proc EXCEPT ![i] = AfterMapping(
                  [p EXCEPT !.failedUpdates = Append(@, FailedUpdate(p, "update")),
                            !.faults = @ + 1])]
             /\ UNCHANGED <<rawMaterials, rawMaterialVariations>>
        ELSE IF plan.useVariation
        THEN /\ rawMaterialVariations' = updateLocalRawMaterialVariationStock(
                  rawMaterialVariations, mapping.materialVariationId, plan.entry.newStock)
             /\ UNCHANGED rawMaterials
             /\ proc' = [proc EXCEPT ![i] =
                  [p EXCEPT !.pc = "ledger", !.entry = plan.entry,
                            !.materialsMap = SetVariationStock(
                               @, mapping.materialProductId,
                               mapping.materialVariationId, plan.entry.newStock)]]
        ELSE /\ rawMaterials' = updateLocalRawMaterialStock(
                  rawMaterials, mapping.materialProductId, plan.entry.newStock)
             /\ UNCHANGED rawMaterialVariations
             /\ proc' = [proc EXCEPT ![i] =
                  [p EXCEPT !.pc = "ledger", !.entry = plan.entry,
                            !.materialsMap = SetMaterialStock(
                               @, mapping.materialProductId, plan.entry.newStock)]]
  /\ UNCHANGED <<materialProductMappings, stockLedger, processedOrders,
                 purchaseOrders, purchaseOrderItems, adj, recv, calc, norm, requests>>

\* await storage.createStockLedgerEntry({...}); results.push({...})
ProcessLedger(i, ok) ==
  /\ proc[i].pc = "ledger"
  /\ LET p == proc[i]
     IN IF ok
        THEN /\ stockLedger' = createStockLedgerEntry(stockLedger, p.entry)
             /\ proc' = [proc EXCEPT ![i] = AfterMapping(
                  [p EXCEPT !.results = Append(@, p.entry)])]
        ELSE \* the insert throws: catch (updateError)
             /\ p.faults < MaxFaults
             /\ UNCHANGED stockLedger
             /\ proc' = [proc EXCEPT ![i] = AfterMapping(
                  [p EXCEPT !.failedUpdates = Append(@, FailedUpdate(p, "ledger")),
                            !.faults = @ + 1])]
  /\ UNCHANGED <<rawMaterials, rawMaterialVariations, materialProductMappings,
                 processedOrders, purchaseOrders, purchaseOrderItems,
                 adj, recv, calc, norm, requests>>

\* await storage.markOrderProcessed({orderId, orderNumber}); res.json(response).
\* A throw (the unique constraint, or a storage error) reaches the outer catch:
\* status 500.
ProcessMark(i, ok) ==
  /\ proc[i].pc = "mark"
  /\ LET p == proc[i]
     IN IF ~ok
        THEN /\ p.faults < MaxFaults
             /\ UNCHANGED processedOrders
             /\ proc' = [proc EXCEPT ![i] = [p EXCEPT !.pc = "done", !.status = 500,
                                                      !.faults = @ + 1]]
        ELSE IF UniqueViolation(processedOrders, p.orderId)
        THEN /\ UNCHANGED processedOrders
             /\ proc' = [proc EXCEPT ![i] = [p EXCEPT !.pc = "done", !.status = 500]]
        ELSE /\ processedOrders' = markOrderProcessed(processedOrders, p.orderId, p.orderId)
             /\ proc' = [proc EXCEPT ![i] = [p EXCEPT !.pc = "done", !.status = 200]]
  /\ UNCHANGED <<rawMaterials, rawMaterialVariations, materialProductMappings,
                 stockLedger, purchaseOrders, purchaseOrderItems,
                 adj, recv, calc, norm, requests>>

----------------------------------------------------------------------------
(* GET /api/orders/fulfillment-status: the id normalizer and the calculator *)

\* materialsByLocalId.get(id)
ByLocalId(localMaterials, id) ==
  IF \E k \in 1..Len(localMaterials) : localMaterials[k].id = id
  THEN localMaterials[CHOOSE k \in 1..Len(localMaterials) : localMaterials[k].id = id]
  ELSE NoRow

\* materialsByWooId.get(id): new Map(list) keeps the last entry of a key.
ByWooId(localMaterials, id) ==
  LET hits == {k \in 1..Len(localMaterials) : localMaterials[k].woocommerceId = id}
  IN IF hits = {} THEN NoRow
     ELSE localMaterials[CHOOSE k \in hits : \A j \in hits : j <= k]

\* findMaterial(id) = materialsByLocalId.get(id) || materialsByWooId.get(id)
findMaterial(localMaterials, id) ==
  IF ~IsNull(ByLocalId(localMaterials, id)) THEN ByLocalId(localMaterials, id)
  ELSE ByWooId(localMaterials, id)

\* Mutant: the external id space is looked up first.
normalizeId_wooFirst(localMaterials, id) ==
  LET byLocal == ByLocalId(localMaterials, id)
      byWoo == ByWooId(localMaterials, id)
  IN IF ~IsNull(byWoo) THEN byWoo.id
     ELSE IF ~IsNull(byLocal) THEN byLocal.id
     ELSE id

\* Mutant: ids are used as they come.
normalizeId_asIs(localMaterials, id) == id

\* normalizeId(id): the canonical local id of a material id of either space.
normalizeId(localMaterials, id) ==
  LET byLocal == ByLocalId(localMaterials, id)
      byWoo == ByWooId(localMaterials, id)
  IN IF ~IsNull(byLocal) THEN byLocal.id
     ELSE IF ~IsNull(byWoo) THEN byWoo.id
     ELSE id

\* material.variations.find(v => v.id === varId || v.woocommerceId === varId)
FindVariationEither(material, varId) ==
  LET hits == {k \in 1..Len(material.variations) :
                 \/ material.variations[k].id = varId
                 \/ material.variations[k].woocommerceId = varId}
  IN IF hits = {} THEN NoRow
     ELSE material.variations[CHOOSE k \in hits : \A j \in hits : k <= j]

\* normalizeVariationId(material, varId)
normalizeVariationId(material, varId) ==
  IF ~Truthy(varId) \/ Len(material.variations) = 0 THEN varId
  ELSE LET variation == FindVariationEither(material, varId)
       IN IF ~IsNull(variation) THEN variation.id ELSE varId

\* A Map from keys to numbers, and map.get(key) || 0.
MapGetOr0(map, key) == IF key \in DOMAIN map THEN map[key] ELSE 0
MapSet(map, key, val) ==
  [k \in DOMAIN map \cup {key} |-> IF k = key THEN val ELSE map[k]]

\* The key `${materialId}-${variationId || 'null'}` of a pool bucket.
Key(materialId, variationId) == <<materialId, OrNull(variationId)>>

RECURSIVE SumStock(_, _)
SumStock(variations, k) ==
  IF k = 0 THEN 0 ELSE variations[k].stockQuantity + SumStock(variations, k - 1)

\* The stock pool materialsMap: one bucket per variation of a variable
\* material plus a (material, null) bucket with their sum; one (material,
\* null) bucket for any other material.
StockPool(localMaterials) ==
  LET variable(m) == m.type = "variable" /\ Len(m.variations) > 0
      keys == UNION {
        IF variable(localMaterials[k])
        THEN {Key(localMaterials[k].id, localMaterials[k].variations[j].id) :
                j \in 1..Len(localMaterials[k].variations)}
             \cup {Key(localMaterials[k].id, Null)}
        ELSE {Key(localMaterials[k].id, Null)} : k \in 1..Len(localMaterials)}
      stockOf(key) ==
        LET m == ByLocalId(localMaterials, key[1])
        IN IF ~variable(m) THEN m.stockQuantity
           ELSE IF key[2] = Null THEN SumStock(m.variations, Len(m.variations))
           ELSE FindVariation(m, key[2]).stockQuantity
  IN [key \in keys |-> stockOf(key)]

\* The statuses that need fulfillment tracking.
fulfillmentStatuses == {"pending", "order-received", "production"}

\* [...relevantOrders].sort((a, b) => date(a) - date(b)): a stable sort.
RECURSIVE InsertByDate(_, _)
InsertByDate(sorted, order) ==
  IF sorted = << >> THEN <<order>>
  ELSE IF order.date_created < Head(sorted).date_created
       THEN <<order>> \o sorted
       ELSE <<Head(sorted)>> \o InsertByDate(Tail(sorted), order)

RECURSIVE SortByDate(_, _)
SortByDate(orders, k) ==
  IF k = 0 THEN << >> ELSE InsertByDate(SortByDate(orders, k - 1), orders[k])

\* Mutant: the filtered orders in feed order.
SortedOrders_feedOrder(orders) ==
  SelectSeq(orders, LAMBDA o : o.status \in fulfillmentStatuses)

SortedOrders(orders) ==
  LET relevantOrders == SelectSeq(orders, LAMBDA o : o.status \in fulfillmentStatuses)
  IN SortByDate(relevantOrders, Len(relevantOrders))

\* allMappings.filter(m => m.productId === productId &&
\*   (variationId ? m.variationId === variationId : m.variationId === null))
ItemMappings(allMappings, item) ==
  LET variationId == OrNull(item.variation_id)
  IN SelectSeq(allMappings, LAMBDA m :
       /\ m.productId = item.product_id
       /\ IF Truthy(variationId) THEN m.variationId = variationId
          ELSE m.variationId = Null)

\* Mutant: an orphaned mapping is a need like any other.
AddNeed_orphanNeeded(needs, localMaterials, mapping, item) ==
  LET key == Key(mapping.materialProductId, mapping.materialVariationId)
      quantityNeeded == mapping.quantityUsed * item.quantity
      at == {k \in 1..Len(needs) : needs[k].key = key}
  IN IF at # {}
     THEN [k \in 1..Len(needs) |->
             IF k \in at THEN [needs[k] EXCEPT !.needed = @ + quantityNeeded]
             ELSE needs[k]]
     ELSE Append(needs, [key |-> key, needed |-> quantityNeeded,
                         materialId |-> mapping.materialProductId,
                         variationId |-> mapping.materialVariationId])

\* materialsNeeded after one more mapping of a line item.
AddNeed(needs, localMaterials, mapping, item) ==
  LET material == findMaterial(localMaterials, mapping.materialProductId)
      normalizedMaterialId == normalizeId(localMaterials, mapping.materialProductId)
      normalizedVariationId == normalizeVariationId(material, mapping.materialVariationId)
      key == Key(normalizedMaterialId, normalizedVariationId)
      quantityNeeded == mapping.quantityUsed * item.quantity
      at == {k \in 1..Len(needs) : needs[k].key = key}
  IN IF IsNull(material) THEN needs      \* orphaned mapping: continue
     ELSE IF at # {}
     THEN [k \in 1..Len(needs) |->
             IF k \in at THEN [needs[k] EXCEPT !.needed = @ + quantityNeeded]
             ELSE needs[k]]
     ELSE Append(needs, [key |-> key, needed |-> quantityNeeded,
                         materialId |-> normalizedMaterialId,
                         variationId |-> normalizedVariationId])

RECURSIVE NeedsOfMappings(_, _, _, _, _)
NeedsOfMappings(needs, localMaterials, mappings, k, item) ==
  IF k > Len(mappings) THEN needs
  ELSE NeedsOfMappings(AddNeed(needs, localMaterials, mappings[k], item),
                       localMaterials, mappings, k + 1, item)

\* materialsNeeded of an order: the entries in insertion order.
RECURSIVE MaterialsNeeded(_, _, _, _, _)
MaterialsNeeded(needs, localMaterials, allMappings, items, k) ==
  IF k > Len(items) THEN needs
  ELSE MaterialsNeeded(
         NeedsOfMappings(needs, localMaterials,
                         ItemMappings(allMappings, items[k]), 1, items[k]),
         localMaterials, allMappings, items, k + 1)

\* The shortfalls of an order against the pool less the stock already claimed.
MissingMaterials(needs, pool, used) ==
  LET short(n) == MapGetOr0(pool, n.key) - MapGetOr0(used, n.key) < n.needed
      entry(n) == [materialId |-> n.materialId, variationId |-> n.variationId,
                   needed |-> n.needed,
                   available |-> Max(0, MapGetOr0(pool, n.key) - MapGetOr0(used, n.key))]
      shorts == SelectSeq(needs, short)
  IN [k \in 1..Len(shorts) |-> entry(shorts[k])]

\* Mutant: a fulfillable order claims nothing.
Commit_nothing(used, needs, k) == used

\* cumulativeStockUsed after an order that can be fulfilled.
RECURSIVE Commit(_, _, _)
Commit(used, needs, k) ==
  IF k > Len(needs) THEN used
  ELSE Commit(MapSet(used, needs[k].key, MapGetOr0(used, needs[k].key) + needs[k].needed),
              needs, k + 1)

\* Mutant: an order short of a material still claims its needs.
UsedAfter_shortClaims(used, needs, isProcessed, canFulfill) ==
  IF ~isProcessed THEN Commit(used, needs, 1) ELSE used

\* Mutant: a processed order claims its needs when the stock covers them.
UsedAfter_processedClaims(used, needs, isProcessed, canFulfill) ==
  IF canFulfill THEN Commit(used, needs, 1) ELSE used

\* cumulativeStockUsed after one order of the loop: a processed order is
\* skipped before its needs are computed, an order that cannot be fulfilled
\* commits nothing.
UsedAfter(used, needs, isProcessed, canFulfill) ==
  IF ~isProcessed /\ canFulfill THEN Commit(used, needs, 1) ELSE used

\* The loop over sortedOrders from index k on; st is the loop state
\* [used: cumulativeStockUsed, status: fulfillmentStatus].
RECURSIVE Allocate(_, _, _, _, _, _)
Allocate(sorted, k, st, localMaterials, allMappings, processedOrderIds) ==
  IF k > Len(sorted) THEN st
  ELSE LET order == sorted[k]
           needs == MaterialsNeeded(<< >>, localMaterials, allMappings,
                                    order.line_items, 1)
           missing == MissingMaterials(needs, StockPool(localMaterials), st.used)
           canFulfill == Len(missing) = 0
           result == IF order.id \in processedOrderIds
                     THEN [canFulfill |-> TRUE, missingMaterials |-> << >>,
                           isProcessed |-> TRUE]
                     ELSE [canFulfill |-> canFulfill, missingMaterials |-> missing,
                           isProcessed |-> FALSE]
           used == UsedAfter(st.used, needs, order.id \in processedOrderIds, canFulfill)
       IN Allocate(sorted, k + 1,
                   [used |-> used, status |-> MapSet(st.status, order.id, result)],
                   localMaterials, allMappings, processedOrderIds)

\* The handler's computation from the data it fetched.
FulfillmentRun(orders, localMaterials, allMappings, processedOrderIds) ==
  Allocate(SortedOrders(orders), 1, [used |-> << >>, status |-> << >>],
           localMaterials, allMappings, processedOrderIds)

\* The order feed (fetchOrders): orders 7, 8, 9 in this list order, created
\* in any order of time, each with line items; order 9 may be completed.
FeedOrderIds == <<7, 8, 9>>
FeedDates == {d \in [1..3 -> 1..3] : \A i, j \in 1..3 : i # j => d[i] # d[j]}
FeedStatuses == [1..3 -> {"pending", "completed"}]
FeedQuantities == {1, 3}
FeedLineItems ==
  {<<LineItem(100, 0, q)>> : q \in FeedQuantities} \cup
  { <<LineItem(300, 0, 1)>>,
    <<LineItem(200, 201, 1)>>,
    <<LineItem(200, 202, 1)>>,
    <<LineItem(400, 0, 1)>>,
    <<LineItem(800, 0, 1)>> }

OrderFeeds ==
  {[k \in 1..3 |-> [id |-> FeedOrderIds[k], status |-> s[k],
                    date_created |-> d[k], line_items |-> l[k]]] :
     d \in FeedDates,
     s \in {f \in FeedStatuses : f[1] = "pending" /\ f[2] = "pending"},
     l \in [1..3 -> FeedLineItems]}

\* storage.getAllProcessedOrders() as the set processedOrderIds.
ProcessedOrderIds(tbl) == {tbl[k].orderId : k \in 1..Len(tbl)}

\* required holds the answers of the required-materials query, by order id.
CalcIdle == [pc |-> "idle", orders |-> << >>, localMaterials |-> << >>,
             processedOrderIds |-> {}, fulfillmentStatus |-> << >>,
             cumulativeStockUsed |-> << >>, required |-> << >>]

\* The handler: fetch the orders, the materials, the mappings and the
\* processed orders, compute, res.json(fulfillmentStatus).  It writes nothing.
GetFulfillmentStatus ==
  /\ calc.pc = "idle"
  /\ LET localMaterials == getLocalRawMaterials(rawMaterials, rawMaterialVariations)
         processedOrderIds == ProcessedOrderIds(processedOrders)
         run == FulfillmentRun(calc.orders, localMaterials, materialProductMappings,
                               processedOrderIds)
     IN calc' = [calc EXCEPT !.pc = "done", !.localMaterials = localMaterials,
                             !.processedOrderIds = processedOrderIds,
                             !.fulfillmentStatus = run.status,
                             !.cumulativeStockUsed = run.used]
  /\ UNCHANGED <<dbVars, adj, proc, recv, norm, requests>>

----------------------------------------------------------------------------
(* GET /api/orders/:orderId/required-materials *)

\* requiredMaterials of the line items from index k on: one entry per mapping
\* of a line item whose material is found by its local id; currentStock is
\* the stock of the mapping's variation when the material has it, the
\* material's own stockQuantity otherwise.
RECURSIVE RequiredMaterials(_, _, _, _)
RequiredMaterials(localMaterials, allMappings, items, k) ==
  IF k > Len(items) THEN << >>
  ELSE LET item == items[k]
           found == SelectSeq(ItemMappings(allMappings, item), LAMBDA m :
                      ~IsNull(ByLocalId(localMaterials, m.materialProductId)))
           entry(mapping) ==
             LET material == ByLocalId(localMaterials, mapping.materialProductId)
                 variation == IF Truthy(mapping.materialVariationId)
                                 /\ Len(material.variations) > 0
                              THEN FindVariation(material, mapping.materialVariationId)
                              ELSE NoRow
                 quantityNeeded == mapping.quantityUsed * item.quantity
                 currentStock == IF ~IsNull(variation) THEN variation.stockQuantity
                                 ELSE material.stockQuantity
             IN [materialId |-> mapping.materialProductId,
                 variationId |-> mapping.materialVariationId,
                 quantityNeeded |-> quantityNeeded,
                 currentStock |-> currentStock,
                 hasSufficientStock |-> currentStock >= quantityNeeded]
       IN [j \in 1..Len(found) |-> entry(found[j])]
          \o RequiredMaterials(localMaterials, allMappings, items, k + 1)

\* The handler: find the order in the feed, fetch the materials and the
\* mappings, res.json({requiredMaterials, canFulfill, isProcessed}).  It
\* writes nothing.
GetRequiredMaterials(orderId) ==
  /\ orderId \notin DOMAIN calc.required
  /\ \E k \in 1..Len(calc.orders) : calc.orders[k].id = orderId
  /\ LET order == calc.orders[CHOOSE k \in 1..Len(calc.orders) :
                                calc.orders[k].id = orderId]
         requiredMaterials ==
           RequiredMaterials(getLocalRawMaterials(rawMaterials, rawMaterialVariations),
                             materialProductMappings, order.line_items, 1)
     IN calc' = [calc EXCEPT !.required = MapSet(@, orderId,
          [requiredMaterials |-> requiredMaterials,
           isProcessed |-> getProcessedOrder(processedOrders, orderId),
           canFulfill |-> \A j \in 1..Len(requiredMaterials) :
                             requiredMaterials[j].hasSufficientStock])]
  /\ UNCHANGED <<dbVars, adj, proc, recv, norm, requests>>

----------------------------------------------------------------------------
(* POST /api/purchase-orders/:id/receive *)

\* purchase_orders and purchase_order_items at start-up: order 1 is open with
\* a line for material 1 and a line for variation 21 of material 2; order 2
\* is cancelled.
InitPurchaseOrders ==
  (1 :> [id |-> 1, poNumber |-> 1, status |-> "ordered", receivedDate |-> Null]) @@
  (2 :> [id |-> 2, poNumber |-> 2, status |-> "cancelled", receivedDate |-> Null])

PurchaseOrderItem(id, po, m, mv, ordered) ==
  [id |-> id, purchaseOrderId |-> po, materialProductId |-> m,
   materialVariationId |-> mv, quantityOrdered |-> ordered, quantityReceived |-> 0]

InitPurchaseOrderItems ==
  (11 :> PurchaseOrderItem(11, 1, 1, Null, 3)) @@
  (12 :> PurchaseOrderItem(12, 1, 2, 21, 1)) @@
  (13 :> PurchaseOrderItem(13, 2, 1, Null, 1))

\* storage.getPurchaseOrder(id): the row with its items, or null.
getPurchaseOrder(orders, items, id) ==
  IF id \notin DOMAIN orders THEN NoRow
  ELSE [id |-> id, poNumber |-> orders[id].poNumber, status |-> orders[id].status,
        receivedDate |-> orders[id].receivedDate,
        items |-> LET ids == Ascending({i \in DOMAIN items : items[i].purchaseOrderId = id})
                  IN [k \in 1..Len(ids) |-> items[ids[k]]]]

\* Mutant: the line is looked up by id alone, in any order.
FindItem_anyOrder(order, itemId) ==
  IF itemId \in DOMAIN purchaseOrderItems THEN purchaseOrderItems[itemId] ELSE NoRow

\* order.items.find(i => i.id === itemId)
FindItem(order, itemId) ==
  IF \E k \in 1..Len(order.items) : order.items[k].id = itemId
  THEN order.items[CHOOSE k \in 1..Len(order.items) : order.items[k].id = itemId]
  ELSE NoRow

Receivers == {1, 2}
MaxReceive == 2
PurchaseOrderParams == {1, 2, 3}

Receipt(itemId, q) == [itemId |-> itemId, quantityReceived |-> q]

\* The bodies a caller sends: one pair, the same item in two pairs, two lines,
\* and a line of another order.
ReceiptLists ==
  {<<Receipt(11, q)>> : q \in 0..MaxReceive} \cup
  {<<Receipt(11, q), Receipt(11, q)>> : q \in 1..MaxReceive} \cup
  { <<Receipt(12, 1), Receipt(13, 1)>>,
    <<Receipt(11, MaxReceive + 1), Receipt(12, MaxReceive)>> }

RecvIdle == [pc |-> "idle", id |-> Null, items |-> << >>, order |-> NoRow,
             index |-> 0, validatedReceipts |-> << >>, results |-> << >>,
             entry |-> NoRow, receiptIndex |-> 0, item |-> NoRow,
             newStatus |-> "", status |-> 0]

\* After a receipt of the body: the next one, or the storage call.
AfterReceipt(q) ==
  IF q.index < Len(q.items) THEN [q EXCEPT !.index = @ + 1, !.pc = "receipt"]
  ELSE [q EXCEPT !.index = @ + 1, !.pc = "apply", !.receiptIndex = 1]

\* Mutant: only a cancelled order is refused.
ReceiveRefused_cancelledOnly(order) == order.status = "cancelled"

\* The status guards of the receive route.
ReceiveRefused(order) == order.status \in {"cancelled", "received"}

\* Parse the body, load the order, reject a missing, cancelled or received one.
ReceiveBegin(r, id, items) ==
  /\ recv[r].pc = "idle"
  /\ \A e \in Receivers : e < r => recv[e].pc # "idle"
  /\ LET order == getPurchaseOrder(purchaseOrders, purchaseOrderItems, id)
         q == [RecvIdle EXCEPT !.id = id, !.items = items]
     IN recv' = [recv EXCEPT ![r] =
          IF IsNull(order) THEN [q EXCEPT !.pc = "done", !.status = 404]
          ELSE IF ReceiveRefused(order)
          THEN [q EXCEPT !.pc = "done", !.status = 400]
          ELSE AfterReceipt([q EXCEPT !.order = order])]
  /\ UNCHANGED <<dbVars, adj, proc, calc, norm, requests>>

\* One receipt of the body up to and including the read of the current stock:
\* skipped when the line is not of the order or nothing remains to receive,
\* otherwise clamped against the order as loaded and queued.
ReceiveReceipt(r) ==
  /\ recv[r].pc = "receipt"
  /\ LET q == recv[r]
         receipt == q.items[q.index]
         item == FindItem(q.order, receipt.itemId)
         remainingToReceive == item.quantityOrdered - item.quantityReceived
         quantityToReceive == Min(receipt.quantityReceived, remainingToReceive)
         variation == getLocalRawMaterialVariation(item.materialVariationId)
         material == getLocalRawMaterial(item.materialProductId)
         previousStock ==
           IF Truthy(item.materialVariationId)
           THEN (IF IsNull(variation) THEN 0 ELSE variation.stockQuantity)
           ELSE (IF IsNull(material) THEN 0 ELSE material.stockQuantity)
     IN recv' = [recv EXCEPT ![r] =
          IF IsNull(item) \/ receipt.quantityReceived <= 0 THEN AfterReceipt(q)
          ELSE IF quantityToReceive <= 0 THEN AfterReceipt(q)
          ELSE [q EXCEPT
                  !.pc = "update",
                  !.validatedReceipts = Append(@, Receipt(receipt.itemId, quantityToReceive)),
                  !.entry = LedgerEntry(item.materialProductId,
                                        OrNull(item.materialVariationId),
                                        Null, q.order.poNumber, quantityToReceive,
                                        previousStock, previousStock + quantityToReceive,
                                        "purchase_order")]]
  /\ UNCHANGED <<dbVars, adj, proc, calc, norm, requests>>

\* await storage.updateLocalRawMaterial[Variation]Stock(..., newStock)
ReceiveUpdate(r) ==
  /\ recv[r].pc = "update"
  /\ IF recv[r].entry.materialVariationId # Null
     THEN /\ rawMaterialVariations' = updateLocalRawMaterialVariationStock(
                 rawMaterialVariations, recv[r].entry.materialVariationId,
                 recv[r].entry.newStock)
          /\ UNCHANGED rawMaterials
     ELSE /\ rawMaterials' = updateLocalRawMaterialStock(
                 rawMaterials, recv[r].entry.materialProductId, recv[r].entry.newStock)
          /\ UNCHANGED rawMaterialVariations
  /\ recv' = [recv EXCEPT ![r].pc = "ledger"]
  /\ UNCHANGED <<materialProductMappings, stockLedger, processedOrders,
                 purchaseOrders, purchaseOrderItems, adj, proc, calc, norm, requests>>

\* await storage.createStockLedgerEntry({...}); results.push({...})
ReceiveLedger(r) ==
  /\ recv[r].pc = "ledger"
  /\ stockLedger' = createStockLedgerEntry(stockLedger, recv[r].entry)
  /\ recv' = [recv EXCEPT ![r] =
       AfterReceipt([recv[r] EXCEPT !.results = Append(@, recv[r].entry),
                                    !.entry = NoRow])]
  /\ UNCHANGED <<rawMaterials, rawMaterialVariations, materialProductMappings,
                 processedOrders, purchaseOrders, purchaseOrderItems,
                 adj, proc, calc, norm, requests>>

\* storage.receivePurchaseOrderItems, the read of one receipt's line:
\* select ... from purchase_order_items where id = receipt.itemId
ReceiveSelectItem(r) ==
  /\ recv[r].pc = "apply"
  /\ recv[r].receiptIndex <= Len(recv[r].validatedReceipts)
  /\ LET q == recv[r]
         receipt == q.validatedReceipts[q.receiptIndex]
         item == IF receipt.itemId \in DOMAIN purchaseOrderItems
                 THEN purchaseOrderItems[receipt.itemId] ELSE NoRow
     IN recv' = [recv EXCEPT ![r] =
          IF ~IsNull(item) /\ receipt.quantityReceived > 0
          THEN [q EXCEPT !.pc = "applyWrite", !.item = item]
          ELSE [q EXCEPT !.receiptIndex = @ + 1]]
  /\ UNCHANGED <<dbVars, adj, proc, calc, norm, requests>>

\* update purchase_order_items set quantity_received =
\*   item.quantityReceived + receipt.quantityReceived where id = receipt.itemId
ReceiveUpdateItem(r) ==
  /\ recv[r].pc = "applyWrite"
  /\ LET q == recv[r]
         receipt == q.validatedReceipts[q.receiptIndex]
         newQuantityReceived == q.item.quantityReceived + receipt.quantityReceived
     IN /\ purchaseOrderItems' =
             IF receipt.itemId \in DOMAIN purchaseOrderItems
             THEN [purchaseOrderItems EXCEPT ![receipt.itemId].quantityReceived =
                     newQuantityReceived]
             ELSE purchaseOrderItems
        /\ recv' = [recv EXCEPT ![r] =
             [q EXCEPT !.pc = "apply", !.receiptIndex = @ + 1, !.item = NoRow]]
  /\ UNCHANGED <<rawMaterials, rawMaterialVariations, materialProductMappings,
                 stockLedger, processedOrders, purchaseOrders,
                 adj, proc, calc, norm, requests>>

\* new Date() at the time of the call.
Today == 1

\* Mutant: any receipt closes the order.
ReceivedStatus_someIsAll(po) ==
  IF \E k \in 1..Len(po.items) : po.items[k].quantityReceived > 0
  THEN "received" ELSE po.status

\* The status a purchase order gets from its lines.
ReceivedStatus(po) ==
  LET allReceived == \A k \in 1..Len(po.items) :
                        po.items[k].quantityReceived >= po.items[k].quantityOrdered
      someReceived == \E k \in 1..Len(po.items) : po.items[k].quantityReceived > 0
  IN IF allReceived THEN "received"
     ELSE IF someReceived THEN "partially_received"
     ELSE po.status

\* After the receipts: reload the order and compute its status.
ReceiveReload(r) ==
  /\ recv[r].pc = "apply"
  /\ recv[r].receiptIndex > Len(recv[r].validatedReceipts)
  /\ LET q == recv[r]
         po == getPurchaseOrder(purchaseOrders, purchaseOrderItems, q.id)
     IN recv' = [recv EXCEPT ![r] =
          IF IsNull(po) THEN [q EXCEPT !.pc = "done", !.status = 500]
          ELSE IF ReceivedStatus(po) # po.status
          THEN [q EXCEPT !.pc = "status", !.newStatus = ReceivedStatus(po)]
          ELSE [q EXCEPT !.pc = "done", !.status = 200]]
  /\ UNCHANGED <<dbVars, adj, proc, calc, norm, requests>>

\* update purchase_orders set status = newStatus; res.json({success: true, ...})
ReceiveSetStatus(r) ==
  /\ recv[r].pc = "status"
  /\ purchaseOrders' =
       [purchaseOrders EXCEPT ![recv[r].id].status = recv[r].newStatus,
                              ![recv[r].id].receivedDate =
                                 IF recv[r].newStatus = "received" THEN Today ELSE Null]
  /\ recv' = [recv EXCEPT ![r].pc = "done", ![r].status = 200]
  /\ UNCHANGED <<rawMaterials, rawMaterialVariations, materialProductMappings,
                 stockLedger, processedOrders, purchaseOrderItems,
                 adj, proc, calc, norm, requests>>

\* The unique index unique_material_product_mapping on (materialProductId,
\* materialVariationId, productId, variationId): an insert conflicts with a
\* row that is equal in the four columns; a row in which an indexed column is
\* NULL conflicts with no row (PostgreSQL compares NULLs as distinct).
UniqueMappingViolation(tbl, row) ==
  /\ row.materialVariationId # Null
  /\ row.variationId # Null
  /\ \E k \in 1..Len(tbl) :
        /\ tbl[k].materialProductId = row.materialProductId
        /\ tbl[k].materialVariationId = row.materialVariationId
        /\ tbl[k].productId = row.productId
        /\ tbl[k].variationId = row.variationId

\* storage.bulkCreateMaterialMappings: one insert per target from index k on;
\* a unique violation is caught and the target skipped.
RECURSIVE bulkCreateMaterialMappings(_, _, _, _, _)
bulkCreateMaterialMappings(tbl, materialProductId, materialVariationId, targets, k) ==
  IF k > Len(targets) THEN tbl
  ELSE LET row == Mapping(targets[k].productId, targets[k].variationId,
                          materialProductId, materialVariationId,
                          targets[k].quantityUsed)
       IN bulkCreateMaterialMappings(
            IF UniqueMappingViolation(tbl, row) THEN tbl ELSE Append(tbl, row),
            materialProductId, materialVariationId, targets, k + 1)

\* A target of a bulk request, and the target lists a caller sends.
BulkMappingTarget(productId, variationId) ==
  [productId |-> productId, variationId |-> variationId, quantityUsed |-> 1]

BulkTargetLists ==
  { <<BulkMappingTarget(100, Null)>>,
    <<BulkMappingTarget(200, 201)>>,
    <<BulkMappingTarget(100, Null), BulkMappingTarget(900, Null)>>,
    <<BulkMappingTarget(200, 201), BulkMappingTarget(900, 901)>> }

\* POST /api/material-mappings/bulk with materialProductId, materialVariationId
\* (absent becomes null) and a non-empty targets array.
BulkCreateMappings(materialProductId, materialVariationId, targets) ==
  /\ Accept
  /\ materialProductMappings' =
       bulkCreateMaterialMappings(materialProductMappings, materialProductId,
                                  materialVariationId, targets, 1)
  /\ UNCHANGED <<rawMaterials, rawMaterialVariations, stockLedger, processedOrders,
                 purchaseOrders, purchaseOrderItems, adj, proc, recv, calc, norm>>

\* PATCH /api/purchase-orders/:id/status: any of the five statuses is
\* accepted for an order that exists.
validStatuses == {"draft", "ordered", "partially_received", "received", "cancelled"}

PatchPurchaseOrderStatus(id, status) ==
  /\ Accept
  /\ IF id \in DOMAIN purchaseOrders
     THEN purchaseOrders' = [purchaseOrders EXCEPT ![id].status = status]
     ELSE UNCHANGED purchaseOrders
  /\ UNCHANGED <<rawMaterials, rawMaterialVariations, materialProductMappings,
                 stockLedger, processedOrders, purchaseOrderItems,
                 adj, proc, recv, calc, norm>>

\* PUT /api/purchase-orders/:id.  body.status is a status or absent;
\* body.items is a list of lines or absent.  With items the lines of the
\* order are deleted and the body's lines inserted with quantityReceived 0
\* under fresh serial ids.
PutLine(m, mv, ordered) ==
  [materialProductId |-> m, materialVariationId |-> mv, quantityOrdered |-> ordered]

PutBodies ==
  {[hasStatus |-> TRUE, status |-> st, hasItems |-> FALSE, items |-> << >>] :
     st \in {"ordered", "cancelled"}}
  \cup
  {[hasStatus |-> FALSE, status |-> "", hasItems |-> TRUE,
    items |-> <<PutLine(1, Null, q)>>] : q \in 1..MaxReceive}

\* The id the serial column gives the k-th line that a request inserts.
FreshItemId(k) == 20 + 10 * requests + k

updatePurchaseOrder(orders, id, body) ==
  IF body.hasStatus THEN [orders EXCEPT ![id].status = body.status] ELSE orders

ReplaceItems(items, id, lines) ==
  LET kept == {i \in DOMAIN items : items[i].purchaseOrderId # id}
      new == {FreshItemId(k) : k \in 1..Len(lines)}
  IN [i \in kept \cup new |->
        IF i \in kept THEN items[i]
        ELSE LET line == lines[i - FreshItemId(0)]
             IN PurchaseOrderItem(i, id, line.materialProductId,
                                  OrNull(line.materialVariationId),
                                  line.quantityOrdered)]

PutPurchaseOrder(id, body) ==
  /\ Accept
  /\ IF id \in DOMAIN purchaseOrders
     THEN /\ purchaseOrders' = updatePurchaseOrder(purchaseOrders, id, body)
          /\ purchaseOrderItems' =
               IF body.hasItems THEN ReplaceItems(purchaseOrderItems, id, body.items)
               ELSE purchaseOrderItems
     ELSE UNCHANGED <<purchaseOrders, purchaseOrderItems>>
  /\ UNCHANGED <<rawMaterials, rawMaterialVariations, materialProductMappings,
                 stockLedger, processedOrders, adj, proc, recv, calc, norm>>

\* normalizeId applied to an id, and to its own result, over the catalog a
\* calculator pass fetched.
NormIdle == [pc |-> "idle", id |-> Null, once |-> Null, twice |-> Null]

NormalizeId(x) ==
  /\ norm.pc = "idle"
  /\ norm' = [norm EXCEPT !.pc = "once", !.id = x,
         !.once = normalizeId(getLocalRawMaterials(rawMaterials, rawMaterialVariations), x)]
  /\ UNCHANGED <<dbVars, adj, proc, recv, calc, requests>>

NormalizeIdAgain ==
  /\ norm.pc = "once"
  /\ norm' = [norm EXCEPT !.pc = "twice",
         !.twice = normalizeId(getLocalRawMaterials(rawMaterials, rawMaterialVariations),
                               norm.once)]
  /\ UNCHANGED <<dbVars, adj, proc, recv, calc, requests>>

----------------------------------------------------------------------------
Init ==
  /\ rawMaterials = InitRawMaterials
  /\ rawMaterialVariations = InitRawMaterialVariations
  /\ materialProductMappings = InitMappings
  /\ stockLedger = << >>
  /\ processedOrders = << >>
  /\ purchaseOrders = InitPurchaseOrders
  /\ purchaseOrderItems = InitPurchaseOrderItems
  /\ adj = AdjIdle
  /\ proc = [i \in Invocations |-> ProcIdle]
  /\ recv = [r \in Receivers |-> RecvIdle]
  /\ calc = CalcIdle
  /\ norm = NormIdle
  /\ requests = 0

AdjustMaterial ==
  \E family \in {"local", "raw"}, kind \in {"add", "set"}, id \in MaterialParams,
     q \in Quantities, level \in StockLevels :
       AdjustMaterialBegin(family, kind, id, q, level)

AdjustVariation ==
  \E family \in {"local", "raw"}, kind \in {"add", "set"}, m \in MaterialParams,
     v \in VariationParams, q \in Quantities, level \in StockLevels :
       AdjustVariationBegin(family, kind, m, v, q, level)

PatchStock ==
  \/ \E id \in MaterialParams, s \in StockLevels : PatchMaterialStock(id, s)
  \/ \E id \in VariationParams, s \in StockLevels : PatchVariationStock(id, s)

Next ==
  \/ AdjustMaterial
  \/ AdjustVariation
  \/ AdjustUpdate
  \/ AdjustLedger
  \/ PatchStock

SpecStock == Init /\ [][Next]_vars

ProcessOrderStock ==
  \E i \in Invocations, orderId \in OrderIds, lineItems \in LineItemLists :
     ProcessBegin(i, orderId, lineItems)

NextOrder ==
  \/ ProcessOrderStock
  \/ \E i \in Invocations : ProcessPrefetch(i)
  \/ \E i \in Invocations : ProcessItem(i)
  \/ \E i \in Invocations, ok \in BOOLEAN : ProcessMapping(i, ok)
  \/ \E i \in Invocations, ok \in BOOLEAN : ProcessLedger(i, ok)
  \/ \E i \in Invocations, ok \in BOOLEAN : ProcessMark(i, ok)

SpecOrder == Init /\ [][NextOrder]_vars

\* The invocations one after the other (a call arrives when no other call is
\* running), and a fulfillment-status request at any of these moments.
NextOrderSeq ==
  \/ /\ \A j \in Invocations : proc[j].pc \in {"idle", "done"}
     /\ ProcessOrderStock
  \/ \E i \in Invocations : ProcessPrefetch(i)
  \/ \E i \in Invocations : ProcessItem(i)
  \/ \E i \in Invocations, ok \in BOOLEAN : ProcessMapping(i, ok)
  \/ \E i \in Invocations, ok \in BOOLEAN : ProcessLedger(i, ok)
  \/ \E i \in Invocations, ok \in BOOLEAN : ProcessMark(i, ok)
  \/ /\ \A j \in Invocations : proc[j].pc \in {"idle", "done"}
     /\ GetFulfillmentStatus

SpecOrderSeq == Init /\ [][NextOrderSeq]_vars

\* The calculator on a catalog with any of a few stock levels, any order feed
\* and order 8 processed or not.
FulfillStocks1 == {0 - 2, 3, 10}
FulfillStocks21 == {0, 2}

InitFulfill ==
  /\ \E s1 \in FulfillStocks1, s21 \in FulfillStocks21 :
       /\ rawMaterials = [InitRawMaterials EXCEPT ![1].stockQuantity = s1]
       /\ rawMaterialVariations = [InitRawMaterialVariations EXCEPT ![21].stockQuantity = s21]
  /\ materialProductMappings = InitMappings
  /\ stockLedger = << >>
  /\ processedOrders \in {<< >>, <<[orderId |-> 8, orderNumber |-> 8]>>}
  /\ purchaseOrders = InitPurchaseOrders
  /\ purchaseOrderItems = InitPurchaseOrderItems
  /\ adj = AdjIdle
  /\ proc = [i \in Invocations |-> ProcIdle]
  /\ recv = [r \in Receivers |-> RecvIdle]
  /\ calc \in {[CalcIdle EXCEPT !.orders = feed] : feed \in OrderFeeds}
  /\ norm = NormIdle
  /\ requests = 0

NextFulfill == GetFulfillmentStatus

SpecFulfill == InitFulfill /\ [][NextFulfill]_vars

\* The calculator and the required-materials query for order 7, in any order.
NextRequired ==
  \/ GetFulfillmentStatus
  \/ GetRequiredMaterials(7)

SpecRequired == InitFulfill /\ [][NextRequired]_vars

ReceiveItems ==
  \E r \in Receivers, id \in PurchaseOrderParams, items \in ReceiptLists :
     ReceiveBegin(r, id, items)

NextReceive ==
  \/ ReceiveItems
  \/ \E r \in Receivers : ReceiveReceipt(r)
  \/ \E r \in Receivers : ReceiveUpdate(r)
  \/ \E r \in Receivers : ReceiveLedger(r)
  \/ \E r \in Receivers : ReceiveSelectItem(r)
  \/ \E r \in Receivers : ReceiveUpdateItem(r)
  \/ \E r \in Receivers : ReceiveReload(r)
  \/ \E r \in Receivers : ReceiveSetStatus(r)

SpecReceive == Init /\ [][NextReceive]_vars

\* The purchase-order operations: one receive request on order 1 among
\* status updates and order updates.
PurchaseReceiptLists ==
  { <<Receipt(11, 1)>>, <<Receipt(11, MaxReceive + 1), Receipt(12, 1)>> }

NextPurchase ==
  \/ \E items \in PurchaseReceiptLists : ReceiveBegin(1, 1, items)
  \/ ReceiveReceipt(1)
  \/ ReceiveUpdate(1)
  \/ ReceiveLedger(1)
  \/ ReceiveSelectItem(1)
  \/ ReceiveUpdateItem(1)
  \/ ReceiveReload(1)
  \/ ReceiveSetStatus(1)
  \/ \E id \in PurchaseOrderParams, status \in validStatuses :
        PatchPurchaseOrderStatus(id, status)
  \/ \E id \in PurchaseOrderParams, body \in PutBodies : PutPurchaseOrder(id, body)

SpecPurchase == Init /\ [][NextPurchase]_vars

\* Receive requests served one after another.
NextReceiveSeq ==
  \/ /\ \A e \in Receivers : recv[e].pc \in {"idle", "done"}
     /\ ReceiveItems
  \/ \E r \in Receivers : ReceiveReceipt(r)
  \/ \E r \in Receivers : ReceiveUpdate(r)
  \/ \E r \in Receivers : ReceiveLedger(r)
  \/ \E r \in Receivers : ReceiveSelectItem(r)
  \/ \E r \in Receivers : ReceiveUpdateItem(r)
  \/ \E r \in Receivers : ReceiveReload(r)
  \/ \E r \in Receivers : ReceiveSetStatus(r)

SpecReceiveSeq == Init /\ [][NextReceiveSeq]_vars

\* One order-processing invocation among a purchase-order receipt and a
\* stock adjustment on the same material or variation, with no storage
\* error.
InterleaveLineItems == { <<LineItem(100, 0, 1)>>, <<LineItem(200, 201, 1)>> }
InterleaveReceipts == { <<Receipt(11, 1)>>, <<Receipt(12, 1)>> }

NextInterleave ==
  \/ \E lineItems \in InterleaveLineItems : ProcessBegin(1, 7, lineItems)
  \/ ProcessPrefetch(1)
  \/ ProcessItem(1)
  \/ ProcessMapping(1, TRUE)
  \/ ProcessLedger(1, TRUE)
  \/ ProcessMark(1, TRUE)
  \/ \E items \in InterleaveReceipts : ReceiveBegin(1, 1, items)
  \/ ReceiveReceipt(1)
  \/ ReceiveUpdate(1)
  \/ ReceiveLedger(1)
  \/ ReceiveSelectItem(1)
  \/ ReceiveUpdateItem(1)
  \/ ReceiveReload(1)
  \/ ReceiveSetStatus(1)
  \/ AdjustMaterialBegin("local", "add", 1, JsNumber(1), 0)
  \/ AdjustVariationBegin("local", "add", 2, 21, JsNumber(1), 0)
  \/ AdjustUpdate
  \/ AdjustLedger

SpecInterleave == Init /\ [][NextInterleave]_vars

\* Bulk creation of mappings for material 1, material 2 or variation 21 of
\* material 2.
NextMappings ==
  \E m \in {1, 2}, mv \in {Null, 21}, targets \in BulkTargetLists :
     BulkCreateMappings(m, mv, targets)

SpecMappings == Init /\ [][NextMappings]_vars

----------------------------------------------------------------------------
(* Purchase-order totals *)

\* Money is a numeric(10,2) column: the model holds it in cents.  A value
\* the handlers compute before they format it is held in hundredths of a
\* cent; toFixed2 is Number.prototype.toFixed(2) on such a value.  VAT rates
\* are whole multiples of 20 per cent, so no computed value lies exactly
\* between two cents.
toFixed2(x) == (x + 50) \div 100

\* A line of a request body and the row the routes build from it:
\* lineSubtotal = quantityOrdered * unitPrice, lineVat = lineSubtotal *
\* vatRate / 100, each stored with toFixed(2).
TotalsLine(ordered, unitPrice, vatRate) ==
  [quantityOrdered |-> ordered, unitPrice |-> unitPrice, vatRate |-> vatRate]

TotalsItem(id, po, line) ==
  [id |-> id, purchaseOrderId |-> po, materialProductId |-> 1,
   materialVariationId |-> Null, quantityOrdered |-> line.quantityOrdered,
   quantityReceived |-> 0, unitPrice |-> line.unitPrice, vatRate |-> line.vatRate,
   lineSubtotal |-> toFixed2(line.quantityOrdered * line.unitPrice * 100),
   lineVat |-> toFixed2(line.quantityOrdered * line.unitPrice * line.vatRate),
   lineTotal |-> toFixed2(line.quantityOrdered * line.unitPrice * (100 + line.vatRate))]

\* The sums the POST and PUT routes accumulate over the body's lines, before
\* formatting.
RECURSIVE BodySubtotal(_, _)
BodySubtotal(lines, k) ==
  IF k = 0 THEN 0
  ELSE BodySubtotal(lines, k - 1) + lines[k].quantityOrdered * lines[k].unitPrice * 100

RECURSIVE BodyVat(_, _)
BodyVat(lines, k) ==
  IF k = 0 THEN 0
  ELSE BodyVat(lines, k - 1)
       + lines[k].quantityOrdered * lines[k].unitPrice * lines[k].vatRate

TotalsLines ==
  {<<TotalsLine(q, p, r)>> : q \in 1..MaxQuantity, p \in {100, 33}, r \in {0, 20}}
  \cup {<<TotalsLine(1, 33, 20), TotalsLine(1, 33, 20)>>}

\* POST /api/purchase-orders.  body.shippingCost is an amount or absent
\* (Null); the columns the route does not set take their defaults.
PostPurchaseOrder(lines, shippingCost) ==
  /\ Accept
  /\ LET id == 2 + requests
         subtotal == BodySubtotal(lines, Len(lines))
         vatTotal == BodyVat(lines, Len(lines))
         cost == IF shippingCost = Null THEN 0 ELSE shippingCost * 100
     IN /\ purchaseOrders' = purchaseOrders @@
             (id :> [id |-> id, poNumber |-> id, status |-> "draft",
                     receivedDate |-> Null,
                     subtotal |-> toFixed2(subtotal),
                     shippingCost |-> toFixed2(cost),
                     shippingVatRate |-> 0, shippingVat |-> 0,
                     vatTotal |-> toFixed2(vatTotal),
                     grandTotal |-> toFixed2(subtotal + vatTotal + cost)])
        /\ purchaseOrderItems' = purchaseOrderItems @@
             [i \in {FreshItemId(k) : k \in 1..Len(lines)} |->
                TotalsItem(i, id, lines[i - FreshItemId(0)])]
  /\ UNCHANGED <<rawMaterials, rawMaterialVariations, materialProductMappings,
                 stockLedger, processedOrders, adj, proc, recv, calc, norm>>

\* storage.recalculatePurchaseOrderTotals(id): the totals from the stored
\* lines and the stored shipping columns.
RECURSIVE SumLines(_, _, _)
SumLines(items, k, field) ==
  IF k = 0 THEN 0 ELSE SumLines(items, k - 1, field) + items[k][field] * 100

recalculatePurchaseOrderTotals(orders, items, id) ==
  IF id \notin DOMAIN orders THEN orders
  ELSE LET ids == Ascending({i \in DOMAIN items : items[i].purchaseOrderId = id})
           rows == [k \in 1..Len(ids) |-> items[ids[k]]]
           subtotal == SumLines(rows, Len(rows), "lineSubtotal")
           itemsVat == SumLines(rows, Len(rows), "lineVat")
           shippingCost == orders[id].shippingCost * 100
           shippingVat == orders[id].shippingCost * orders[id].shippingVatRate
           vatTotal == itemsVat + shippingVat
       IN [orders EXCEPT ![id].subtotal = toFixed2(subtotal),
                         ![id].shippingVat = toFixed2(shippingVat),
                         ![id].vatTotal = toFixed2(vatTotal),
                         ![id].grandTotal =
                            toFixed2(subtotal + vatTotal + shippingCost)]

\* PUT /api/purchase-orders/:id with its totals.  body.items is a list of
\* lines or absent; body.shippingCost is an amount or absent (Null).
PutTotalsBodies ==
  {[hasItems |-> TRUE, items |-> ls, shippingCost |-> c] :
     ls \in TotalsLines, c \in {Null, 1000}}
  \cup {[hasItems |-> FALSE, items |-> << >>, shippingCost |-> c] : c \in {Null, 2000}}

PutPurchaseOrderTotals(id, body) ==
  /\ Accept
  /\ IF id \in DOMAIN purchaseOrders
     THEN LET existing == purchaseOrders[id]
              subtotal == BodySubtotal(body.items, Len(body.items))
              vatTotal == BodyVat(body.items, Len(body.items))
              cost == IF body.shippingCost = Null THEN existing.shippingCost * 100
                      ELSE body.shippingCost * 100
          IN /\ purchaseOrders' =
                  IF body.hasItems
                  THEN [purchaseOrders EXCEPT
                          ![id].subtotal = toFixed2(subtotal),
                          ![id].shippingCost = toFixed2(cost),
                          ![id].vatTotal = toFixed2(vatTotal),
                          ![id].grandTotal = toFixed2(subtotal + vatTotal + cost)]
                  ELSE IF body.shippingCost # Null
                  THEN [purchaseOrders EXCEPT
                          ![id].shippingCost = toFixed2(cost),
                          ![id].grandTotal =
                             toFixed2(existing.subtotal * 100
                                      + existing.vatTotal * 100 + cost)]
                  ELSE purchaseOrders
             /\ purchaseOrderItems' =
                  IF body.hasItems
                  THEN LET kept == {i \in DOMAIN purchaseOrderItems :
                                      purchaseOrderItems[i].purchaseOrderId # id}
                           new == {FreshItemId(k) : k \in 1..Len(body.items)}
                       IN [i \in kept \cup new |->
                             IF i \in kept THEN purchaseOrderItems[i]
                             ELSE TotalsItem(i, id, body.items[i - FreshItemId(0)])]
                  ELSE purchaseOrderItems
     ELSE UNCHANGED <<purchaseOrders, purchaseOrderItems>>
  /\ UNCHANGED <<rawMaterials, rawMaterialVariations, materialProductMappings,
                 stockLedger, processedOrders, adj, proc, recv, calc, norm>>

\* POST /api/purchase-orders/:id/items, DELETE .../items/:itemId and
\* PATCH .../shipping: on a draft order the change, then the recalculation.
AddPurchaseOrderItem(id, line) ==
  /\ Accept
  /\ IF id \in DOMAIN purchaseOrders /\ purchaseOrders[id].status = "draft"
     THEN /\ purchaseOrderItems' = purchaseOrderItems @@
                (FreshItemId(1) :> TotalsItem(FreshItemId(1), id, line))
          /\ purchaseOrders' =
                recalculatePurchaseOrderTotals(purchaseOrders, purchaseOrderItems', id)
     ELSE UNCHANGED <<purchaseOrders, purchaseOrderItems>>
  /\ UNCHANGED <<rawMaterials, rawMaterialVariations, materialProductMappings,
                 stockLedger, processedOrders, adj, proc, recv, calc, norm>>

RemovePurchaseOrderItem(id, itemId) ==
  /\ Accept
  /\ IF /\ id \in DOMAIN purchaseOrders
        /\ purchaseOrders[id].status = "draft"
        /\ itemId \in DOMAIN purchaseOrderItems
        /\ purchaseOrderItems[itemId].purchaseOrderId = id
     THEN /\ purchaseOrderItems' =
                [i \in DOMAIN purchaseOrderItems \ {itemId} |-> purchaseOrderItems[i]]
          /\ purchaseOrders' =
                recalculatePurchaseOrderTotals(purchaseOrders, purchaseOrderItems', id)
     ELSE UNCHANGED <<purchaseOrders, purchaseOrderItems>>
  /\ UNCHANGED <<rawMaterials, rawMaterialVariations, materialProductMappings,
                 stockLedger, processedOrders, adj, proc, recv, calc, norm>>

PatchShipping(id, shippingCost, shippingVatRate) ==
  /\ Accept
  /\ IF id \in DOMAIN purchaseOrders /\ purchaseOrders[id].status = "draft"
     THEN /\ purchaseOrders' =
                recalculatePurchaseOrderTotals(
                  [purchaseOrders EXCEPT ![id].shippingCost = shippingCost,
                                         ![id].shippingVatRate = shippingVatRate],
                  purchaseOrderItems, id)
          /\ UNCHANGED purchaseOrderItems
     ELSE UNCHANGED <<purchaseOrders, purchaseOrderItems>>
  /\ UNCHANGED <<rawMaterials, rawMaterialVariations, materialProductMappings,
                 stockLedger, processedOrders, adj, proc, recv, calc, norm>>

\* The purchase-order requests that touch items or shipping, one request at
\* a time, on order 1.  purchase_orders and purchase_order_items carry their
\* monetary columns: draft order 1 as POST /api/purchase-orders stored it for
\* one line of 1.00 at 20 per cent and no shipping cost.
InitTotals ==
  /\ rawMaterials = InitRawMaterials
  /\ rawMaterialVariations = InitRawMaterialVariations
  /\ materialProductMappings = InitMappings
  /\ stockLedger = << >>
  /\ processedOrders = << >>
  /\ purchaseOrders =
       (1 :> [id |-> 1, poNumber |-> 1, status |-> "draft", receivedDate |-> Null,
              subtotal |-> 100, shippingCost |-> 0, shippingVatRate |-> 0,
              shippingVat |-> 0, vatTotal |-> 20, grandTotal |-> 120])
  /\ purchaseOrderItems = (11 :> TotalsItem(11, 1, TotalsLine(1, 100, 20)))
  /\ adj = AdjIdle
  /\ proc = [i \in Invocations |-> ProcIdle]
  /\ recv = [r \in Receivers |-> RecvIdle]
  /\ calc = CalcIdle
  /\ norm = NormIdle
  /\ requests = 0

NextTotals ==
  \/ \E ls \in TotalsLines, c \in {Null, 1000} : PostPurchaseOrder(ls, c)
  \/ \E body \in PutTotalsBodies : PutPurchaseOrderTotals(1, body)
  \/ \E ls \in TotalsLines : AddPurchaseOrderItem(1, ls[1])
  \/ \E i \in {11, 12, 21} : RemovePurchaseOrderItem(1, i)
  \/ \E c \in {0, 1000}, r \in {0, 20} : PatchShipping(1, c, r)

SpecTotals == InitTotals /\ [][NextTotals]_vars

\* normalizeId over catalogs of three materials whose external ids may be
\* absent, shared, or equal to the local id of another material.
NormWooIds == {Null, 1, 2, 3, 51}
NormIds == {1, 2, 3, 51, 77}
NormCatalogs ==
  {[id \in 1..3 |-> [id |-> id, woocommerceId |-> w[id], type |-> "simple",
                     stockQuantity |-> 0, manageStock |-> TRUE, isActive |-> a[id]]] :
     w \in [1..3 -> NormWooIds], a \in [1..3 -> BOOLEAN]}

InitNorm ==
  /\ rawMaterials \in NormCatalogs
  /\ rawMaterialVariations = InitRawMaterialVariations
  /\ materialProductMappings = InitMappings
  /\ stockLedger = << >>
  /\ processedOrders = << >>
  /\ purchaseOrders = InitPurchaseOrders
  /\ purchaseOrderItems = InitPurchaseOrderItems
  /\ adj = AdjIdle
  /\ proc = [i \in Invocations |-> ProcIdle]
  /\ recv = [r \in Receivers |-> RecvIdle]
  /\ calc = CalcIdle
  /\ norm = NormIdle
  /\ requests = 0

NextNorm ==
  \/ \E x \in NormIds : NormalizeId(x)
  \/ NormalizeIdAgain

SpecNorm == InitNorm /\ [][NextNorm]_vars

\* Orders whose products have mappings to a material that does not exist
\* (100 -> 9, 600 -> 9), processed while the calculator runs on a feed of them.
OrphanLists ==
  {<<LineItem(100, 0, q), LineItem(500, 0, 1)>> : q \in 1..MaxQuantity} \cup
  { <<LineItem(600, 0, 1), LineItem(200, 202, 1)>>,
    <<LineItem(200, 201, 1)>> }

OrphanFeeds ==
  {<<[id |-> 7, status |-> "pending", date_created |-> 1, line_items |-> l],
     [id |-> 8, status |-> "pending", date_created |-> 2, line_items |-> l]>> :
     l \in OrphanLists}

InitOrphan ==
  /\ rawMaterials = InitRawMaterials
  /\ rawMaterialVariations = InitRawMaterialVariations
  /\ materialProductMappings = InitMappings
  /\ stockLedger = << >>
  /\ processedOrders = << >>
  /\ purchaseOrders = InitPurchaseOrders
  /\ purchaseOrderItems = InitPurchaseOrderItems
  /\ adj = AdjIdle
  /\ proc = [i \in Invocations |-> ProcIdle]
  /\ recv = [r \in Receivers |-> RecvIdle]
  /\ calc \in {[CalcIdle EXCEPT !.orders = feed] : feed \in OrphanFeeds}
  /\ norm = NormIdle
  /\ requests = 0

NextOrphan ==
  \/ \E i \in Invocations, lineItems \in OrphanLists : ProcessBegin(i, 7, lineItems)
  \/ \E i \in Invocations : ProcessPrefetch(i)
  \/ \E i \in Invocations : ProcessItem(i)
  \/ \E i \in Invocations, ok \in BOOLEAN : ProcessMapping(i, ok)
  \/ \E i \in Invocations, ok \in BOOLEAN : ProcessLedger(i, ok)
  \/ \E i \in Invocations, ok \in BOOLEAN : ProcessMark(i, ok)
  \/ GetFulfillmentStatus

SpecOrphan == InitOrphan /\ [][NextOrphan]_vars

----------------------------------------------------------------------------
(* Properties of the order stock processor *)

\* The 'order' ledger entries of order id O, in insertion order.
OrderEntries(O) == SelectSeq(stockLedger, LAMBDA e : e.reason = "order" /\ e.orderId = O)

\* Number of processed_orders rows of order id O.
MarkerCount(O) == Cardinality({k \in 1..Len(processedOrders) : processedOrders[k].orderId = O})

\* The stock row a ledger entry names.
TargetStock(m, v) ==
  IF v = Null THEN rawMaterials[m].stockQuantity ELSE rawMaterialVariations[v].stockQuantity
InitTargetStock(m, v) ==
  IF v = Null THEN InitRawMaterials[m].stockQuantity
  ELSE InitRawMaterialVariations[v].stockQuantity

Targets == {<<m, Null>> : m \in DOMAIN InitRawMaterials} \cup
           {<<InitRawMaterialVariations[v].materialId, v>> : v \in DOMAIN InitRawMaterialVariations}

RECURSIVE SumChange(_, _, _)
SumChange(entries, k, t) ==
  IF k = 0 THEN 0
  ELSE SumChange(entries, k - 1, t) +
       (IF entries[k].materialProductId = t[1] /\ entries[k].materialVariationId = t[2]
        THEN entries[k].quantityChange ELSE 0)

\* The stock row a deduction changed: the variation the entry names when the
\* material has it, the material's own row otherwise.
ChangedRow(e) ==
  IF /\ e.materialVariationId # Null
     /\ e.materialVariationId \in DOMAIN InitRawMaterialVariations
     /\ InitRawMaterialVariations[e.materialVariationId].materialId = e.materialProductId
  THEN <<e.materialProductId, e.materialVariationId>>
  ELSE <<e.materialProductId, Null>>

RECURSIVE SumDeducted(_, _, _)
SumDeducted(entries, k, t) ==
  IF k = 0 THEN 0
  ELSE SumDeducted(entries, k - 1, t) +
       (IF ChangedRow(entries[k]) = t THEN entries[k].quantityChange ELSE 0)

\* C1: once an invocation for order O has returned success, an invocation for O
\* that starts later is rejected with status 400 (already processed) at the
\* guard, changes no table, and stays rejected; in the state after both calls
\* the ledger holds exactly the first call's entries for O and, when none of
\* its updates failed, every stock row is lower by the first call's
\* deductions, once.
C1_LaterInvocationRejected ==
  /\ [][\A i \in Invocations :
          /\ ( /\ proc[i].pc = "idle" /\ proc'[i].pc # "idle"
               /\ \E j \in Invocations : /\ j # i
                                         /\ proc[j].status = 200
                                         /\ proc[j].orderId = proc'[i].orderId )
             => (proc'[i].pc = "done" /\ proc'[i].status = 400 /\ UNCHANGED dbVars)
          /\ proc[i].status = 400 => proc'[i] = proc[i]]_vars
  /\ [](\A i, j \in Invocations :
          ( /\ proc[i].status = 200 /\ proc[j].status = 400
            /\ proc[i].orderId = proc[j].orderId )
          => /\ proc[j].results = << >> /\ proc[j].failedUpdates = << >>
             /\ OrderEntries(proc[i].orderId) = proc[i].results
             /\ proc[i].failedUpdates = << >> =>
                  \A t \in Targets :
                     TargetStock(t[1], t[2]) =
                       InitTargetStock(t[1], t[2])
                         + SumDeducted(proc[i].results, Len(proc[i].results), t))

\* C1 witness: a successful invocation that deducted, and a later one for the
\* same order that was rejected.
C1_Witness ==
  \E i, j \in Invocations :
     /\ proc[i].status = 200 /\ Len(proc[i].results) > 0
     /\ proc[i].failedUpdates = << >>
     /\ proc[j].status = 400 /\ proc[j].orderId = proc[i].orderId

\* C2: of two invocations for the same order id at most one deducts stock: the
\* ledger never holds 'order' entries of that order id from both.
C2_AtMostOneDeducts ==
  \A i, j \in Invocations :
     (i # j /\ proc[i].orderId # Null /\ proc[i].orderId = proc[j].orderId)
     => ~(Len(proc[i].results) > 0 /\ Len(proc[j].results) > 0)

\* C7: no order id has two processed_orders rows, and an invocation that
\* returned success has left exactly one row for its order id.
C7_MarkedExactlyOnce ==
  /\ \A O \in OrderIds : MarkerCount(O) <= 1
  /\ \A i \in Invocations : proc[i].status = 200 => MarkerCount(proc[i].orderId) = 1

\* C7 witness: a success with an unmapped item, one with skipped mappings, one
\* with a failed update, and a success next to a race loser.
C7_Witness ==
  /\ \E i \in Invocations :
        /\ proc[i].status = 200 /\ Len(proc[i].failedUpdates) > 0
        /\ Len(proc[i].skippedItems) > 0
        /\ \E j \in Invocations : /\ proc[j].status = 500
                                  /\ proc[j].orderId = proc[i].orderId
                                  /\ Len(proc[j].unmappedItems) > 0

----------------------------------------------------------------------------
(* Properties of the fulfillment calculator *)

\* The orders of the feed the calculator allocates to: tracked status, no
\* Processed Order record.
Competing ==
  {k \in 1..Len(calc.orders) :
     /\ calc.orders[k].status \in fulfillmentStatuses
     /\ calc.orders[k].id \notin calc.processedOrderIds}

\* What order k of the feed needs of a pool key.
NeedsOf(k) ==
  MaterialsNeeded(<< >>, calc.localMaterials, materialProductMappings,
                  calc.orders[k].line_items, 1)
RECURSIVE NeedSum(_, _, _)
NeedSum(needs, n, key) ==
  IF n = 0 THEN 0
  ELSE NeedSum(needs, n - 1, key) + (IF needs[n].key = key THEN needs[n].needed ELSE 0)
NeedOn(k, key) == NeedSum(NeedsOf(k), Len(NeedsOf(k)), key)

NeedKeys == UNION {{NeedsOf(k)[n].key : n \in 1..Len(NeedsOf(k))} : k \in Competing}
PoolKeys == DOMAIN StockPool(calc.localMaterials)
PoolAt(key) == MapGetOr0(StockPool(calc.localMaterials), key)

Fulfillable == {k \in Competing : calc.fulfillmentStatus[calc.orders[k].id].canFulfill}

\* The claims on a key of the fulfillable orders among the first n of the feed
\* that were created before the given time.
RECURSIVE ClaimSum(_, _, _)
ClaimSum(n, key, before) ==
  IF n = 0 THEN 0
  ELSE ClaimSum(n - 1, key, before) +
       (IF n \in Fulfillable /\ calc.orders[n].date_created < before
        THEN NeedOn(n, key) ELSE 0)

\* A time after every creation time of the feed (the times are 1..Len).
LastDate == Len(calc.orders) + 1
Claimed(key) == ClaimSum(Len(calc.orders), key, LastDate)
ClaimedBefore(k, key) == ClaimSum(Len(calc.orders), key, calc.orders[k].date_created)

\* The second half of C4: what an order sees as available of a key is the
\* pool less the claims of the older fulfillable orders.
SeesPoolLessOlderClaims ==
  \A k \in Competing :
     LET result == calc.fulfillmentStatus[calc.orders[k].id]
         needs == NeedsOf(k)
         left(key) == PoolAt(key) - ClaimedBefore(k, key)
         shorts == SelectSeq(needs, LAMBDA n : left(n.key) < n.needed)
     IN /\ result.canFulfill = (shorts = << >>)
        /\ Len(result.missingMaterials) = Len(shorts)
        /\ \A n \in 1..Len(shorts) :
             /\ result.missingMaterials[n].needed = shorts[n].needed
             /\ result.missingMaterials[n].available = Max(0, left(shorts[n].key))

\* C4 as stated: after a pass the claims of the fulfillable orders on a pool
\* key sum to at most the stock seeded for the key, and an order sees the pool
\* less the older fulfillable claims.
C4_AsStated ==
  calc.pc = "done" =>
    /\ \A key \in PoolKeys : Claimed(key) <= PoolAt(key)
    /\ SeesPoolLessOlderClaims

\* C4: after a pass the claims of the fulfillable orders on a pool key sum to
\* at most the stock seeded for the key, or to zero when that stock is
\* negative, and an order sees the pool less the older fulfillable claims.
C4_NoDoubleAllocation ==
  calc.pc = "done" =>
    /\ \A key \in PoolKeys \cup NeedKeys : Claimed(key) <= Max(0, PoolAt(key))
    /\ SeesPoolLessOlderClaims

\* C4 witness: two fulfillable orders share a key, and a third is short of it
\* because of their claims.
C4_Witness ==
  /\ calc.pc = "done"
  /\ \E key \in PoolKeys, a, b, c \in Competing :
        /\ a # b /\ a \in Fulfillable /\ b \in Fulfillable /\ c \notin Fulfillable
        /\ NeedOn(a, key) > 0 /\ NeedOn(b, key) > 0
        /\ NeedOn(c, key) > 0 /\ NeedOn(c, key) <= PoolAt(key)

\* C6: when an older and a newer competing order each need one pool key only,
\* the same one, in amounts the pool covers alone but not together, and no
\* other order older than the newer one needs the key, the older is reported
\* fulfillable and the newer unfulfillable with needed = its need and
\* available = pool - the older's claim, wherever they stand in the feed.
C6_OldestFirst ==
  calc.pc = "done" =>
    \A a, b \in Competing :
       \A key \in NeedKeys :
          ( /\ calc.orders[a].date_created < calc.orders[b].date_created
            /\ Len(NeedsOf(a)) = 1 /\ Len(NeedsOf(b)) = 1
            /\ NeedOn(a, key) > 0 /\ NeedOn(b, key) > 0
            /\ NeedOn(a, key) <= PoolAt(key) /\ NeedOn(b, key) <= PoolAt(key)
            /\ NeedOn(a, key) + NeedOn(b, key) > PoolAt(key)
            /\ \A c \in Competing \ {a, b} :
                  calc.orders[c].date_created < calc.orders[b].date_created
                  => NeedOn(c, key) = 0 )
          => /\ calc.fulfillmentStatus[calc.orders[a].id] =
                  [canFulfill |-> TRUE, missingMaterials |-> << >>, isProcessed |-> FALSE]
             /\ calc.fulfillmentStatus[calc.orders[b].id] =
                  [canFulfill |-> FALSE, isProcessed |-> FALSE,
                   missingMaterials |->
                     <<[materialId |-> key[1], variationId |-> key[2],
                        needed |-> NeedOn(b, key),
                        available |-> PoolAt(key) - NeedOn(a, key)]>>]

\* C6 witness: pool 10, the older order stands after the newer in the feed,
\* both need 6: the newer is short with needed 6, available 4.
C6_Witness ==
  /\ calc.pc = "done"
  /\ \E a, b \in Competing :
        /\ b < a
        /\ calc.orders[a].date_created < calc.orders[b].date_created
        /\ PoolAt(<<1, Null>>) = 10
        /\ NeedsOf(a) = NeedsOf(b) /\ Len(NeedsOf(a)) = 1 /\ NeedOn(a, <<1, Null>>) = 6
        /\ calc.fulfillmentStatus[calc.orders[a].id].canFulfill
        /\ calc.fulfillmentStatus[calc.orders[b].id].missingMaterials =
             <<[materialId |-> 1, variationId |-> Null, needed |-> 6, available |-> 4]>>

----------------------------------------------------------------------------
(* Orphaned mappings *)

\* The material ids no material of the catalog answers to, in either id space.
NoMaterial(localMaterials, id) == IsNull(findMaterial(localMaterials, id))

MissingReason == "Material product no longer exists in inventory"

\* The mappings the processor walks for line item k of invocation i.
MappingsOfItem(i, k) ==
  getMaterialMappingsForProduct(materialProductMappings,
                                proc[i].lineItems[k].product_id,
                                OrNull(proc[i].lineItems[k].variation_id))

RECURSIVE CountMappings(_, _, _)
CountMappings(i, k, orphansOnly) ==
  IF k = 0 THEN 0
  ELSE CountMappings(i, k - 1, orphansOnly) +
       Len(SelectSeq(MappingsOfItem(i, k), LAMBDA m :
             ~orphansOnly \/ IsNull(getLocalRawMaterial(m.materialProductId))))

LoopDone(i) == proc[i].pc = "mark" \/ proc[i].status \in {200, 500}

\* The processor's part: after the loop every mapping of every line item is
\* in results, skippedItems or failedUpdates, and the orphaned ones are the
\* skippedItems with the missing-material reason.
OrphansSkipped ==
  \A i \in Invocations :
     LoopDone(i) =>
       LET p == proc[i]
           missing == SelectSeq(p.skippedItems, LAMBDA x : x.reason = MissingReason)
       IN /\ Len(p.results) + Len(p.skippedItems) + Len(p.failedUpdates)
               = CountMappings(i, Len(p.lineItems), FALSE)
          /\ Len(missing) = CountMappings(i, Len(p.lineItems), TRUE)
          /\ \A n \in 1..Len(missing) : IsNull(getLocalRawMaterial(missing[n].materialId))
          /\ Len(p.unmappedItems) =
               Cardinality({k \in 1..Len(p.lineItems) : MappingsOfItem(i, k) = << >>})

\* The calculator's part: the result is the one it computes from the mappings
\* without the orphaned ones, and no shortfall names a missing material.
OrphansNotNeeded ==
  calc.pc = "done" =>
    /\ calc.fulfillmentStatus =
         FulfillmentRun(calc.orders, calc.localMaterials,
                        SelectSeq(materialProductMappings, LAMBDA m :
                           ~NoMaterial(calc.localMaterials, m.materialProductId)),
                        calc.processedOrderIds).status
    /\ \A k \in Competing :
         LET result == calc.fulfillmentStatus[calc.orders[k].id]
         IN \A n \in 1..Len(result.missingMaterials) :
              ~NoMaterial(calc.localMaterials, result.missingMaterials[n].materialId)

\* C8: a mapping to a material that does not exist never fails the calculator
\* or the processor: the calculator leaves it out of the order's needs, the
\* processor records it in skippedItems and goes on with the remaining
\* mappings and line items; the step that meets it ends with no error status.
C8_OrphanTolerance ==
  /\ [](OrphansSkipped /\ OrphansNotNeeded)
  /\ [][\A i \in Invocations :
          ( /\ proc[i].pc = "mapping"
            /\ IsNull(getLocalRawMaterial(
                        proc[i].mappings[proc[i].mapIndex].materialProductId))
            /\ proc'[i] # proc[i] )
          => /\ proc'[i].status = 0
             /\ proc'[i].skippedItems =
                  Append(proc[i].skippedItems,
                         [materialId |-> proc[i].mappings[proc[i].mapIndex].materialProductId,
                          reason |-> MissingReason])
             /\ UNCHANGED dbVars]_vars

\* C8 witness: the processor skipped an orphaned mapping and deducted for a
\* later line item, and the calculator reported an order of a product mapped
\* only to a missing material.
C8_Witness ==
  /\ \E i \in Invocations :
        /\ proc[i].status = 200
        /\ proc[i].lineItems[1].product_id = 600
        /\ \E n \in 1..Len(proc[i].skippedItems) : proc[i].skippedItems[n].reason = MissingReason
        /\ Len(proc[i].results) > 0
  /\ calc.pc = "done"
  /\ calc.orders[1].line_items[1].product_id = 600
  /\ calc.fulfillmentStatus[7].canFulfill

----------------------------------------------------------------------------
(* Properties of the stock ledger *)

\* The ledger entries keyed by (materialProductId, materialVariationId).
EntriesOf(m, v) ==
  SelectSeq(stockLedger, LAMBDA e : e.materialProductId = m /\ e.materialVariationId = v)

\* C3: once the operations in flight have completed, the stock of every
\* material and of every variation is the newStock of the latest ledger entry
\* of its key, or its initial stock when the ledger has no entry of the key.
C3_StockMatchesLedger ==
  adj.pc = "idle" =>
    \A t \in Targets :
       TargetStock(t[1], t[2]) =
         IF EntriesOf(t[1], t[2]) = << >> THEN InitTargetStock(t[1], t[2])
         ELSE EntriesOf(t[1], t[2])[Len(EntriesOf(t[1], t[2]))].newStock

\* C10: every ledger entry has newStock = previousStock + quantityChange.
C10_LedgerArithmetic ==
  \A k \in 1..Len(stockLedger) :
     stockLedger[k].newStock = stockLedger[k].previousStock + stockLedger[k].quantityChange

----------------------------------------------------------------------------
(* Id normalization *)

\* C9: normalizeId(normalizeId(x)) = normalizeId(x) for every id x and every
\* catalog.
C9_NormalizeIdIdempotent ==
  norm.pc = "twice" => norm.twice = norm.once

\* C9 witness: x is the external id of an active material whose local id is
\* the external id of another active material, and normalizeId has been
\* applied twice.
C9_Witness ==
  /\ norm.pc = "twice"
  /\ norm.once # norm.id
  /\ \E m \in DOMAIN rawMaterials :
        /\ rawMaterials[m].isActive
        /\ rawMaterials[m].woocommerceId = norm.once
        /\ m # norm.once

----------------------------------------------------------------------------
(* Purchase-order receiving *)

\* C5: every purchase-order line has quantityReceived <= quantityOrdered after
\* any receive request, also one that lists the same itemId in several pairs;
\* stated for the states the first request reaches before another one starts.
C5_ReceivedAtMostOrdered ==
  (\A r \in Receivers : r # 1 => recv[r].pc = "idle")
  => \A i \in DOMAIN purchaseOrderItems :
        purchaseOrderItems[i].quantityReceived <= purchaseOrderItems[i].quantityOrdered

----------------------------------------------------------------------------
(* Stock change and ledger entry as one unit *)

\* C11: an operation that has ended, with success or after a storage error at
\* one of its steps, leaves every stock row changed by exactly the ledger
\* entries appended for it; stated for one order-processing invocation that
\* ran alone.
C11_StockChangePairedWithLedger ==
  ( /\ proc[1].pc = "done"
    /\ \A i \in Invocations : i # 1 => proc[i].pc = "idle" )
  => \A t \in Targets :
        TargetStock(t[1], t[2]) =
          InitTargetStock(t[1], t[2]) + SumChange(stockLedger, Len(stockLedger), t)

\* The position of a status on the receiving path.
StatusRank(status) ==
  CASE status = "draft" -> 0
    [] status = "ordered" -> 1
    [] status = "partially_received" -> 2
    [] status = "received" -> 3
    [] OTHER -> 4

\* C12: under the purchase-order operations a cancelled or received order
\* keeps its status, and no order's status moves backward along draft,
\* ordered, partially_received, received.
C12_StatusNeverRegresses ==
  [][\A id \in DOMAIN purchaseOrders :
       LET old == purchaseOrders[id].status
           new == purchaseOrders'[id].status
       IN /\ old \in {"cancelled", "received"} => new = old
          /\ (old # "cancelled" /\ new # "cancelled") => StatusRank(new) >= StatusRank(old)]_vars

\* The quantity received on an order for one material target, over the
\* order's lines for it.
RECURSIVE SumReceived(_, _)
SumReceived(items, S) ==
  IF S = {} THEN 0
  ELSE LET i == CHOOSE x \in S : TRUE
       IN items[i].quantityReceived + SumReceived(items, S \ {i})

ReceivedOn(items, id, m, mv) ==
  SumReceived(items, {i \in DOMAIN items :
                        /\ items[i].purchaseOrderId = id
                        /\ items[i].materialProductId = m
                        /\ items[i].materialVariationId = mv})

\* C20: the quantity received on an order's line for a material never
\* decreases under receive-items, order updates and status updates.
C20_QuantityReceivedNeverDecreases ==
  [][\A id \in DOMAIN purchaseOrders :
       \A i \in DOMAIN purchaseOrderItems :
          purchaseOrderItems[i].purchaseOrderId = id =>
            LET m == purchaseOrderItems[i].materialProductId
                mv == purchaseOrderItems[i].materialVariationId
            IN ReceivedOn(purchaseOrderItems', id, m, mv) >=
                 ReceivedOn(purchaseOrderItems, id, m, mv)]_vars

\* C13: a receive request that finds its order cancelled or received ends at
\* once with the error answer, and the step leaves the stock rows, the
\* ledger, the lines and the orders as they were.
C13_ReceiveOnClosedOrderRejected ==
  [][\A r \in Receivers :
       ( /\ recv[r].pc = "idle"
         /\ recv'[r].pc # "idle"
         /\ recv'[r].id \in DOMAIN purchaseOrders
         /\ purchaseOrders[recv'[r].id].status \in {"cancelled", "received"} )
       => /\ recv'[r].pc = "done"
          /\ recv'[r].status = 400
          /\ recv'[r].results = << >>
          /\ recv'[r].validatedReceipts = << >>
          /\ UNCHANGED dbVars]_vars

\* A request was refused on order 1 after another request received it in
\* full.
C13_Witness ==
  \E r \in Receivers :
     /\ recv[r].pc = "done" /\ recv[r].status = 400 /\ recv[r].id = 1
     /\ purchaseOrders[1].status = "received"
     /\ \E e \in Receivers : e # r /\ recv[e].pc = "done" /\ recv[e].status = 200

\* The lines of an order.
LinesOf(id) == {i \in DOMAIN purchaseOrderItems : purchaseOrderItems[i].purchaseOrderId = id}

\* No receive request is between its first and its last step.
ReceiveQuiet == \A r \in Receivers : recv[r].pc \in {"idle", "done"}

\* The status and the received date of an order agree with its lines.
StatusFromLines(id) ==
  LET every == \A i \in LinesOf(id) :
                  purchaseOrderItems[i].quantityReceived >= purchaseOrderItems[i].quantityOrdered
      some == \E i \in LinesOf(id) : purchaseOrderItems[i].quantityReceived > 0
      po == purchaseOrders[id]
  IN /\ po.status = "received" <=> every
     /\ ~every => (po.status = "partially_received" <=> some)
     /\ (~every /\ ~some) => po.status = InitPurchaseOrders[id].status
     /\ po.receivedDate # Null <=> po.status = "received"

\* Every order that a request received on agrees with its lines once the
\* requests have answered.
AnsweredFromLines ==
  \A r \in Receivers :
     (ReceiveQuiet /\ recv[r].pc = "done" /\ recv[r].status = 200)
       => StatusFromLines(recv[r].id)

C15_RaceLoserGetsConflict ==
  \A i, j \in Invocations :
     ( /\ i # j
       /\ proc[i].pc = "done" /\ proc[j].pc = "done"
       /\ proc[i].orderId = proc[j].orderId
       /\ proc[i].faults = 0 /\ proc[j].faults = 0
       /\ proc[i].status = 200 )
     => /\ proc[j].status = 400
        /\ OrderEntries(proc[i].orderId) = proc[i].results

\* The row a missing-materials entry names does not manage its stock.
Unmanaged(entry) ==
  IF entry.variationId # Null
  THEN /\ entry.variationId \in DOMAIN rawMaterialVariations
       /\ ~rawMaterialVariations[entry.variationId].manageStock
  ELSE /\ entry.materialId \in DOMAIN rawMaterials
       /\ ~rawMaterials[entry.materialId].manageStock

\* C16: in the calculator's answer no order is short of a material or
\* variation whose manageStock is false, whatever its stockQuantity and the
\* claims of older orders.
C16_UnmanagedNeverShort ==
  calc.pc = "done" =>
    \A a \in Competing :
       LET missing == calc.fulfillmentStatus[calc.orders[a].id].missingMaterials
       IN \A k \in 1..Len(missing) : ~Unmanaged(missing[k])

\* The mappings of a product for a line item's variation: the same
\* variation, or no variation when the line item has none.
MappingsExactly(productId, variationId) ==
  SelectSeq(materialProductMappings,
            LAMBDA m : /\ m.productId = productId
                       /\ m.variationId = OrNull(variationId))

\* C17: the mappings an invocation loaded for its current line item are
\* exactly those of the item's product with the item's variation; for an
\* item without variation, those with variationId null only.
C17_MappingsOfItemOnly ==
  \A i \in Invocations :
     proc[i].pc = "mapping" =>
       LET item == proc[i].lineItems[proc[i].itemIndex]
       IN proc[i].mappings = MappingsExactly(item.product_id, item.variation_id)

\* The stock of the row an adjustment is about.
AdjustedStock ==
  IF adj.isVariation
  THEN rawMaterialVariations[adj.entry.materialVariationId].stockQuantity
  ELSE rawMaterials[adj.entry.materialProductId].stockQuantity

\* C18: a set-stock request with level L on a material or variation that
\* exists writes L to the row and then appends one ledger entry with
\* previousStock = the old stock, newStock = L, quantityChange = L - old stock
\* and reason stock_take, also when L is the old stock; no other step of the
\* request touches the ledger.
C18_SetStockLedgerEntry ==
  [][ adj.newStockLevel # Null =>
        LET L == adj.newStockLevel
        IN /\ adj.entry.newStock = L
           /\ adj.entry.reason = "stock_take"
           /\ adj.entry.quantityChange = L - adj.entry.previousStock
           /\ adj.pc = "update" =>
                /\ adj.entry.previousStock = AdjustedStock
                /\ AdjustedStock' = L
                /\ stockLedger' = stockLedger
                /\ adj'.pc = "ledger"
           /\ adj.pc = "ledger" =>
                /\ AdjustedStock = L
                /\ UNCHANGED <<rawMaterials, rawMaterialVariations>>
                /\ stockLedger' = Append(stockLedger, adj.entry)
                /\ adj'.pc = "idle" /\ adj'.status = 200 ]_vars

\* A stock take that lowered a stock was logged, and after it one whose
\* level was the stock the row already had.
C18_Witness ==
  /\ adj.pc = "idle" /\ adj.status = 200
  /\ Len(stockLedger) = 2
  /\ stockLedger[1].reason = "stock_take" /\ stockLedger[1].quantityChange < 0
  /\ stockLedger[2].reason = "stock_take" /\ stockLedger[2].quantityChange = 0
  /\ stockLedger[2].newStock = stockLedger[2].previousStock

\* C19: when an order-processing invocation, a purchase-order receipt and a
\* stock adjustment have interleaved and all have answered, every stock row
\* equals its initial stock plus the quantityChange of the ledger entries
\* written for it.
C19_NoLostUpdate ==
  ( /\ proc[1].pc = "done" /\ proc[1].status = 200 /\ proc[1].failedUpdates = << >>
    /\ recv[1].pc \in {"idle", "done"}
    /\ adj.pc = "idle" )
  => \A t \in Targets :
        TargetStock(t[1], t[2]) =
          InitTargetStock(t[1], t[2]) + SumChange(stockLedger, Len(stockLedger), t)

\* The current mapping of an invocation names a variation that is not among
\* the variations of its material as prefetched.
VariationGone(p) ==
  LET mapping == p.mappings[p.mapIndex]
      material == MapGet(p.materialsMap, mapping.materialProductId)
  IN /\ mapping.materialVariationId # Null
     /\ ~IsNull(material)
     /\ \A k \in 1..Len(material.variations) :
           material.variations[k].id # mapping.materialVariationId

\* C23: the iteration of a mapping whose variation is not among the
\* material's variations, also when the material has none, records a skipped
\* item and changes no stock row and no ledger (no storage error in the step).
C23_GoneVariationSkipped ==
  [][\A i \in Invocations :
       ( /\ proc[i].pc = "mapping" /\ proc'[i] # proc[i]
         /\ proc'[i].faults = proc[i].faults
         /\ VariationGone(proc[i]) )
       => /\ UNCHANGED <<rawMaterials, rawMaterialVariations, stockLedger>>
          /\ proc'[i].pc # "ledger"
          /\ Len(proc'[i].skippedItems) = Len(proc[i].skippedItems) + 1]_vars

\* The target of a deduction.
TargetOf(e) == <<e.materialProductId, e.materialVariationId>>

\* An invocation runs alone, without a storage error, and none of its
\* deductions names a variation that does not exist.
RunsAlone(i) ==
  /\ proc[i].pc # "idle"
  /\ proc[i].faults = 0
  /\ \A j \in Invocations : j # i => proc[j].pc = "idle"
  /\ \A k \in 1..Len(proc[i].results) : TargetOf(proc[i].results[k]) \in Targets

\* The deductions of an invocation chain on every target: previousStock is
\* the newStock of the latest earlier deduction of the target, or the stock
\* at the start when there is none.
ChainedDeductions(results) ==
  \A k \in 1..Len(results) :
     LET earlier == {j \in 1..(k - 1) : TargetOf(results[j]) = TargetOf(results[k])}
         t == TargetOf(results[k])
     IN /\ results[k].previousStock =
             IF earlier = {} THEN InitTargetStock(t[1], t[2])
             ELSE results[CHOOSE j \in earlier : \A h \in earlier : h <= j].newStock
        /\ results[k].newStock = results[k].previousStock + results[k].quantityChange

C25_ShortOrderClaimsNothing ==
  calc.pc = "done" =>
    /\ \A key \in PoolKeys \cup NeedKeys \cup DOMAIN calc.cumulativeStockUsed :
          MapGetOr0(calc.cumulativeStockUsed, key) = Claimed(key)
    /\ SeesPoolLessOlderClaims

\* An order short of one key had enough of another key; a newer order that
\* needs that other key is fulfillable, and would not be had the older one
\* claimed it.
C25_Witness ==
  /\ calc.pc = "done"
  /\ \E k \in Competing \ Fulfillable, j \in Fulfillable, key \in PoolKeys :
        /\ calc.orders[k].date_created < calc.orders[j].date_created
        /\ NeedOn(k, key) > 0 /\ NeedOn(j, key) > 0
        /\ PoolAt(key) - ClaimedBefore(k, key) >= NeedOn(k, key)
        /\ PoolAt(key) - ClaimedBefore(j, key) - NeedOn(k, key) < NeedOn(j, key)

\* The orders of the feed that have a Processed Order record.
Processed == {k \in 1..Len(calc.orders) : calc.orders[k].id \in calc.processedOrderIds}

\* The feed without its k-th order.
WithoutOrder(orders, k) == SubSeq(orders, 1, k - 1) \o SubSeq(orders, k + 1, Len(orders))

\* C26: an order with a Processed Order record is reported canFulfill = true,
\* isProcessed = true with no missing materials, and a pass over the feed
\* without it gives every other order the same result and the same claimed
\* map.
C26_ProcessedOrderNeutral ==
  calc.pc = "done" =>
    \A k \in Processed :
       LET id == calc.orders[k].id
           without == FulfillmentRun(WithoutOrder(calc.orders, k), calc.localMaterials,
                                     materialProductMappings, calc.processedOrderIds)
       IN /\ calc.orders[k].status \in fulfillmentStatuses =>
               calc.fulfillmentStatus[id] =
                 [canFulfill |-> TRUE, missingMaterials |-> << >>, isProcessed |-> TRUE]
          /\ without.used = calc.cumulativeStockUsed
          /\ \A j \in 1..Len(calc.orders) :
                (j # k /\ calc.orders[j].status \in fulfillmentStatuses) =>
                   without.status[calc.orders[j].id] =
                     calc.fulfillmentStatus[calc.orders[j].id]

\* A processed order needs a key that a newer fulfillable order needs too,
\* and the newer one would be short had the processed one claimed it.
C26_Witness ==
  /\ calc.pc = "done"
  /\ \E k \in Processed, j \in Fulfillable, key \in PoolKeys :
        /\ calc.orders[k].date_created < calc.orders[j].date_created
        /\ NeedOn(k, key) > 0 /\ NeedOn(j, key) > 0
        /\ PoolAt(key) >= NeedOn(k, key)
        /\ PoolAt(key) - ClaimedBefore(j, key) - NeedOn(k, key) < NeedOn(j, key)

\* The products of the line items of an invocation that have no mapping.
UnmappedOf(i) ==
  LET un == SelectSeq(proc[i].lineItems, LAMBDA it :
               getMaterialMappingsForProduct(materialProductMappings,
                                             it.product_id, it.variation_id) = << >>)
  IN [k \in 1..Len(un) |-> un[k].product_id]

\* C27: when the loop of an invocation has ended, unmappedItems holds the
\* line items without mapping, every mapping of the other line items was
\* deducted, skipped or recorded as failed, and an invocation that ran alone
\* without a storage error answered with success.
C27_UnmappedItemReported ==
  \A i \in Invocations :
     /\ LoopDone(i) =>
          /\ proc[i].unmappedItems = UnmappedOf(i)
          /\ Len(proc[i].results) + Len(proc[i].skippedItems) + Len(proc[i].failedUpdates)
               = CountMappings(i, Len(proc[i].lineItems), FALSE)
     /\ (RunsAlone(i) /\ proc[i].pc = "done") => proc[i].status = 200

\* An unmapped line item followed by a line item of product 100 (quantityUsed
\* 2) in quantity MaxQuantity: one result, one unmapped item, material 1
\* lower by 2 * MaxQuantity.
C27_Witness ==
  /\ RunsAlone(1) /\ proc[1].pc = "done" /\ proc[1].status = 200
  /\ proc[1].lineItems = <<LineItem(500, 0, 1), LineItem(100, 0, MaxQuantity)>>
  /\ proc[1].unmappedItems = <<500>>
  /\ Len(proc[1].results) = 1
  /\ proc[1].results[1].quantityChange = 0 - 2 * MaxQuantity
  /\ rawMaterials[1].stockQuantity = InitRawMaterials[1].stockQuantity - 2 * MaxQuantity

\* C28: a stock update or a ledger write that throws adds the mapping to
\* failedUpdates with the error and leaves results as they were; the loop
\* goes on, so that at its end every mapping of every line item is in
\* results, skippedItems or failedUpdates; and an invocation that ran alone
\* with such failures only (the marker write did not throw) is marked
\* processed and answers with success.
C28_FailedUpdateRecorded ==
  /\ [][\A i \in Invocations :
          ( /\ proc[i].pc \in {"mapping", "ledger"}
            /\ proc'[i].faults = proc[i].faults + 1 )
          => /\ proc'[i].failedUpdates =
                  Append(proc[i].failedUpdates,
                         FailedUpdate(proc[i], IF proc[i].pc = "mapping"
                                               THEN "update" ELSE "ledger"))
             /\ proc'[i].results = proc[i].results
             /\ proc'[i].pc \in {"mapping", "item", "mark"}
             /\ UNCHANGED <<stockLedger, processedOrders>>]_vars
  /\ [](\A i \in Invocations :
          ( /\ proc[i].failedUpdates # << >>
            /\ LoopDone(i) )
          => /\ Len(proc[i].results) + Len(proc[i].skippedItems) + Len(proc[i].failedUpdates)
                  = CountMappings(i, Len(proc[i].lineItems), FALSE)
             /\ ( /\ proc[i].pc = "done"
                  /\ proc[i].faults = Len(proc[i].failedUpdates)
                  /\ \A j \in Invocations : j # i => proc[j].pc = "idle" )
                => /\ proc[i].status = 200
                   /\ MarkerCount(proc[i].orderId) = 1)

\* The stock update of the first deduction failed; the next line item was
\* still deducted and the order was marked processed.
C28_Witness ==
  /\ proc[1].pc = "done" /\ proc[1].status = 200
  /\ \A j \in Invocations : j # 1 => proc[j].pc = "idle"
  /\ Len(proc[1].failedUpdates) = 1
  /\ proc[1].failedUpdates[1].reason = "update"
  /\ proc[1].failedUpdates[1].productId = proc[1].lineItems[1].product_id
  /\ Len(proc[1].lineItems) = 2
  /\ Len(proc[1].results) = 1
  /\ MarkerCount(proc[1].orderId) = 1

\* The pairs of a first receive request on order id that are accepted, each
\* with its clamped amount: the line is of the order and the amount, capped
\* at the quantity ordered, is positive.
AcceptedPairs(id, items) ==
  LET ok(pair) ==
        /\ pair.itemId \in DOMAIN InitPurchaseOrderItems
        /\ InitPurchaseOrderItems[pair.itemId].purchaseOrderId = id
        /\ Min(pair.quantityReceived, InitPurchaseOrderItems[pair.itemId].quantityOrdered) > 0
      acc == SelectSeq(items, ok)
  IN [k \in 1..Len(acc) |->
        Receipt(acc[k].itemId,
                Min(acc[k].quantityReceived,
                    InitPurchaseOrderItems[acc[k].itemId].quantityOrdered))]

RECURSIVE SumPairs(_, _, _)
SumPairs(pairs, k, itemId) ==
  IF k = 0 THEN 0
  ELSE SumPairs(pairs, k - 1, itemId) +
       (IF pairs[k].itemId = itemId THEN pairs[k].quantityReceived ELSE 0)

\* C29: when the first receive request on an order has answered with success,
\* the ledger holds one entry per accepted pair, in order, with quantityChange
\* = the clamped amount, reason purchase_order, orderId null, orderNumber =
\* the PO number and newStock = previousStock + the amount, chained per
\* target; every stock row is its initial stock plus the amounts received for
\* it; every line's quantityReceived is the sum of its pairs' amounts; pairs
\* with an unknown line or no positive amount leave no trace.
C29_ReceiptApplied ==
  ( /\ recv[1].pc = "done" /\ recv[1].status = 200
    /\ \A r \in Receivers : r # 1 => recv[r].pc = "idle" )
  => LET id == recv[1].id
         pairs == AcceptedPairs(id, recv[1].items)
     IN /\ Len(stockLedger) = Len(pairs)
        /\ \A k \in 1..Len(pairs) :
              LET line == InitPurchaseOrderItems[pairs[k].itemId]
                  e == stockLedger[k]
              IN /\ e.materialProductId = line.materialProductId
                 /\ e.materialVariationId = line.materialVariationId
                 /\ e.quantityChange = pairs[k].quantityReceived
                 /\ e.reason = "purchase_order"
                 /\ e.orderId = Null
                 /\ e.orderNumber = InitPurchaseOrders[id].poNumber
        /\ ChainedDeductions(stockLedger)
        /\ \A t \in Targets :
              TargetStock(t[1], t[2]) =
                InitTargetStock(t[1], t[2]) + SumChange(stockLedger, Len(stockLedger), t)
        /\ \A i \in DOMAIN purchaseOrderItems :
              purchaseOrderItems[i].quantityReceived = SumPairs(pairs, Len(pairs), i)

\* A first request on order 1 with a pair for line 12 and a pair for line 13
\* of another order: one ledger entry, variation 21 higher by 1, line 13 and
\* material 1 untouched.
C29_Witness ==
  /\ recv[1].pc = "done" /\ recv[1].status = 200 /\ recv[1].id = 1
  /\ \A r \in Receivers : r # 1 => recv[r].pc = "idle"
  /\ recv[1].items = <<Receipt(12, 1), Receipt(13, 1)>>
  /\ Len(stockLedger) = 1
  /\ stockLedger[1].quantityChange = 1
  /\ rawMaterialVariations[21].stockQuantity = InitRawMaterialVariations[21].stockQuantity + 1
  /\ rawMaterials[1].stockQuantity = InitRawMaterials[1].stockQuantity
  /\ purchaseOrderItems[12].quantityReceived = 1
  /\ purchaseOrderItems[13].quantityReceived = 0

\* A mapping references the row of a pool key, by local or by external id.
ReferencesKey(m, key) ==
  /\ key[1] \in DOMAIN rawMaterials
  /\ m.materialProductId \in {key[1], rawMaterials[key[1]].woocommerceId}
  /\ IF m.materialVariationId = Null THEN key[2] = Null
     ELSE /\ key[2] \in DOMAIN rawMaterialVariations
          /\ rawMaterialVariations[key[2]].materialId = key[1]
          /\ m.materialVariationId \in {key[2], rawMaterialVariations[key[2]].woocommerceId}

RECURSIVE UsedByMappings(_, _, _)
UsedByMappings(mappings, n, key) ==
  IF n = 0 THEN 0
  ELSE UsedByMappings(mappings, n - 1, key) +
       (IF ReferencesKey(mappings[n], key) THEN mappings[n].quantityUsed ELSE 0)

\* What the line items of order k of the feed use of the row of a pool key,
\* whichever id their mappings name it by.
RECURSIVE UsedByItems(_, _, _)
UsedByItems(items, n, key) ==
  IF n = 0 THEN 0
  ELSE UsedByItems(items, n - 1, key) +
       items[n].quantity *
         UsedByMappings(ItemMappings(materialProductMappings, items[n]),
                        Len(ItemMappings(materialProductMappings, items[n])), key)
ExpectedNeed(k, key) ==
  UsedByItems(calc.orders[k].line_items, Len(calc.orders[k].line_items), key)

RECURSIVE ExpectedClaim(_, _)
ExpectedClaim(n, key) ==
  IF n = 0 THEN 0
  ELSE ExpectedClaim(n - 1, key) + (IF n \in Fulfillable THEN ExpectedNeed(n, key) ELSE 0)

\* C30: after a pass the claimed map holds under each pool key what the
\* fulfillable orders use of that row through mappings by local id and by
\* external id together, an order is short of a pool key exactly when that
\* total exceeds what older fulfillable orders left of the one bucket, and
\* the claimed map has no key of an existing material outside the pool.
C30_BothIdSpacesOneBucket ==
  calc.pc = "done" =>
    /\ \A key \in PoolKeys :
          MapGetOr0(calc.cumulativeStockUsed, key) = ExpectedClaim(Len(calc.orders), key)
    /\ \A key \in DOMAIN calc.cumulativeStockUsed :
          key \in PoolKeys \/ key[2] \notin DOMAIN rawMaterialVariations \cup {Null}
    /\ \A k \in Competing :
          LET missing == calc.fulfillmentStatus[calc.orders[k].id].missingMaterials
          IN \A key \in PoolKeys :
                ( /\ ExpectedNeed(k, key) > 0
                  /\ ExpectedNeed(k, key) > PoolAt(key) - ClaimedBefore(k, key) )
                <=> \E n \in 1..Len(missing) :
                       /\ Key(missing[n].materialId, missing[n].variationId) = key
                       /\ missing[n].needed = ExpectedNeed(k, key)

\* A fulfillable order of product 800, whose mappings name material 1 by 1
\* and by 51 and variation 21 by 21 and by 61, claimed 2 of each bucket.
C30_Witness ==
  /\ calc.pc = "done"
  /\ \E k \in Fulfillable :
        /\ calc.orders[k].line_items = <<LineItem(800, 0, 1)>>
        /\ \A j \in Fulfillable : j = k
        /\ calc.cumulativeStockUsed = (<<1, Null>> :> 2) @@ (<<2, 21>> :> 2)

\* C22: no two rows of material_product_mappings have the same
\* (materialProductId, materialVariationId, productId, variationId), null
\* variation ids included.
C22_MappingsUnique ==
  \A j, k \in 1..Len(materialProductMappings) :
     ( /\ materialProductMappings[j].materialProductId = materialProductMappings[k].materialProductId
       /\ materialProductMappings[j].materialVariationId = materialProductMappings[k].materialVariationId
       /\ materialProductMappings[j].productId = materialProductMappings[k].productId
       /\ materialProductMappings[j].variationId = materialProductMappings[k].variationId )
     => j = k

----------------------------------------------------------------------------
(* C21 *)

RECURSIVE SumLineVat(_, _)
SumLineVat(items, S) ==
  IF S = {} THEN 0
  ELSE LET i == CHOOSE j \in S : TRUE
       IN items[i].lineVat + SumLineVat(items, S \ {i})

TotalsHold(orders, items, id) ==
  LET po == orders[id]
      lines == {i \in DOMAIN items : items[i].purchaseOrderId = id}
  IN /\ po.shippingVat = toFixed2(po.shippingCost * po.shippingVatRate)
     /\ po.vatTotal = SumLineVat(items, lines) + po.shippingVat
     /\ po.grandTotal = po.subtotal + po.vatTotal + po.shippingCost

\* C21: after every request that changes a purchase order's items or
\* shipping, the stored totals of every order satisfy, in cents,
\* shippingVat = shippingCost * shippingVatRate / 100, vatTotal = sum of the
\* lines' lineVat + shippingVat, and grandTotal = subtotal + vatTotal +
\* shippingCost.
C21_TotalsConsistent ==
  \A id \in DOMAIN purchaseOrders : TotalsHold(purchaseOrders, purchaseOrderItems, id)

----------------------------------------------------------------------------
(* C31 *)

\* The stock the prefetched catalog of an invocation holds for a row.
PrefetchedStock(materialsMap, row) ==
  IF row[2] = Null THEN MapGet(materialsMap, row[1]).stockQuantity
  ELSE FindVariation(MapGet(materialsMap, row[1]), row[2]).stockQuantity

\* C31: each order deduction writes newStock = previousStock - quantityUsed *
\* lineItem.quantity to the stock row, with previousStock the stock the
\* invocation holds for the row and no floor at zero; the ledger entry it then
\* appends has reason order, quantityChange = -(quantityUsed *
\* lineItem.quantity) and the order's id and number, and the loop goes on.
C31_DeductionArithmetic ==
  [][\A i \in Invocations :
       /\ (proc[i].pc = "mapping" /\ proc'[i].pc = "ledger") =>
            LET p == proc[i]
                q == p.mappings[p.mapIndex].quantityUsed
                       * p.lineItems[p.itemIndex].quantity
                e == proc'[i].entry
                row == ChangedRow(e)
            IN /\ e.previousStock = PrefetchedStock(p.materialsMap, row)
               /\ e.newStock = e.previousStock - q
               /\ e.quantityChange = 0 - q
               /\ e.reason = "order"
               /\ e.orderId = p.orderId /\ e.orderNumber = p.orderId
               /\ e.materialProductId = p.mappings[p.mapIndex].materialProductId
               /\ IF row[2] = Null
                  THEN rawMaterials'[row[1]].stockQuantity = e.newStock
                  ELSE rawMaterialVariations'[row[2]].stockQuantity = e.newStock
       /\ (proc[i].pc = "ledger" /\ Len(proc'[i].results) > Len(proc[i].results)) =>
            /\ stockLedger' = Append(stockLedger, proc[i].entry)
            /\ proc'[i].results = Append(proc[i].results, proc[i].entry)
            /\ proc'[i].pc \in {"mapping", "item", "mark"}]_vars

\* C31 witness: an invocation answered 200 after a deduction that left the
\* stock below zero.
C31_Witness ==
  \E i \in Invocations :
     /\ proc[i].status = 200
     /\ \E k \in 1..Len(proc[i].results) :
          /\ proc[i].results[k].newStock < 0
          /\ proc[i].results[k] \in {stockLedger[n] : n \in 1..Len(stockLedger)}
          /\ TargetStock(ChangedRow(proc[i].results[k])[1],
                         ChangedRow(proc[i].results[k])[2]) < 0

----------------------------------------------------------------------------
(* C32 *)

\* What the calculator counts as the needs of the line items of invocation i.
CalculatorNeeds(i) ==
  MaterialsNeeded(<< >>, getLocalRawMaterials(rawMaterials, rawMaterialVariations),
                  materialProductMappings, proc[i].lineItems, 1)

\* C32: an invocation that answered 200 without a failed update deducted, from
\* every stock row, exactly the amount the fulfillment calculator counts for
\* the same line items on the row's pool key, and nothing from any other row.
C32_ProcessorDeductsCalculatorNeeds ==
  \A i \in Invocations :
     (proc[i].status = 200 /\ proc[i].failedUpdates = << >>) =>
        \A t \in Targets \cup {CalculatorNeeds(i)[n].key : n \in 1..Len(CalculatorNeeds(i))} :
           NeedSum(CalculatorNeeds(i), Len(CalculatorNeeds(i)), t)
             = 0 - SumDeducted(proc[i].results, Len(proc[i].results), t)

----------------------------------------------------------------------------
(* C33 *)

\* C33: when the feed holds a single open unprocessed order, the
\* required-materials query answers for it the canFulfill that the
\* fulfillment calculator answers.
C33_RequiredAgreesWithCalculator ==
  \A k \in 1..Len(calc.orders) :
     ( /\ calc.pc = "done"
       /\ Competing = {k}
       /\ calc.orders[k].id \in DOMAIN calc.required )
     => calc.required[calc.orders[k].id].canFulfill
          = calc.fulfillmentStatus[calc.orders[k].id].canFulfill

----------------------------------------------------------------------------
(* C34 *)

RECURSIVE ClaimedOnVariations(_, _)
ClaimedOnVariations(material, k) ==
  IF k = 0 THEN 0
  ELSE ClaimedOnVariations(material, k - 1)
       + Claimed(Key(material.id, material.variations[k].id))

\* C34: for a variable material, what the fulfillable orders claim through the
\* (material, null) bucket and through the buckets of its variations is
\* together at most the sum of its variations' stock.
C34_VariableMaterialNotOverClaimed ==
  calc.pc = "done" =>
    \A k \in 1..Len(calc.localMaterials) :
       LET material == calc.localMaterials[k]
       IN (material.type = "variable" /\ Len(material.variations) > 0) =>
            Claimed(Key(material.id, Null))
              + ClaimedOnVariations(material, Len(material.variations))
            <= SumStock(material.variations, Len(material.variations))

----------------------------------------------------------------------------
(* C35 *)

\* C35: over the invocations for one order id with the same line items, run
\* one after the other, no deduction is made twice: two of them never both
\* hold a result for the same target with the same amount.
C35_RetryDoesNotDeductAgain ==
  \A i, j \in Invocations :
     ( /\ i # j
       /\ proc[i].orderId # Null /\ proc[i].orderId = proc[j].orderId
       /\ proc[i].lineItems = proc[j].lineItems )
     => \A k \in 1..Len(proc[i].results), l \in 1..Len(proc[j].results) :
           ~ ( /\ TargetOf(proc[i].results[k]) = TargetOf(proc[j].results[l])
               /\ proc[i].results[k].quantityChange = proc[j].results[l].quantityChange )

----------------------------------------------------------------------------
(* C36 *)

\* C36: every ledger entry names the record whose stock was changed: an
\* entry with a materialVariationId names a variation that exists (so that
\* its stock, and not the material's, was the one written) and that belongs
\* to the entry's materialProductId.
C36_LedgerNamesChangedRecord ==
  \A k \in 1..Len(stockLedger) :
     LET e == stockLedger[k]
     IN e.materialVariationId # Null =>
          /\ e.materialVariationId \in DOMAIN rawMaterialVariations
          /\ rawMaterialVariations[e.materialVariationId].materialId = e.materialProductId

----------------------------------------------------------------------------
(* C37 *)

RECURSIVE SumPurchaseEntries(_, _, _)
SumPurchaseEntries(k, m, mv) ==
  IF k = 0 THEN 0
  ELSE SumPurchaseEntries(k - 1, m, mv)
       + (IF /\ stockLedger[k].reason = "purchase_order"
             /\ stockLedger[k].materialProductId = m
             /\ stockLedger[k].materialVariationId = mv
          THEN stockLedger[k].quantityChange ELSE 0)

\* C37: once the receive requests in flight have ended, the stock added for a
\* line of order 1 (the sum of quantityChange of the purchase_order ledger
\* entries of its material) equals the line's quantityReceived and is at most
\* its quantityOrdered.
C37_ReceivedStockMatchesLine ==
  ReceiveQuiet =>
    \A i \in LinesOf(1) :
       LET item == purchaseOrderItems[i]
           added == SumPurchaseEntries(Len(stockLedger), item.materialProductId,
                                       item.materialVariationId)
       IN added = item.quantityReceived /\ added <= item.quantityOrdered

----------------------------------------------------------------------------
(* C38 *)

\* C38: a need whose key is no bucket of the pool (a mapping whose
\* materialVariationId matches no variation of its material) is left out of
\* the decision: an open order is reported fulfillable when each of its needs
\* on a bucket of the pool is covered by the bucket less the claims of the
\* older fulfillable orders.
C38_UnmatchedVariationIgnored ==
  calc.pc = "done" =>
    \A k \in Competing :
       (\A n \in 1..Len(NeedsOf(k)) :
           NeedsOf(k)[n].key \in PoolKeys =>
             PoolAt(NeedsOf(k)[n].key) - ClaimedBefore(k, NeedsOf(k)[n].key)
               >= NeedsOf(k)[n].needed)
       => calc.fulfillmentStatus[calc.orders[k].id].canFulfill

----------------------------------------------------------------------------
(* C39 *)

\* The pool a calculator pass builds on the catalog at start-up.
InitPool ==
  StockPool(getLocalRawMaterials(InitRawMaterials, InitRawMaterialVariations))

\* C39: a calculator pass that runs while no invocation is in flight sees the
\* bucket named by every deduction of every order processed before (answered
\* 200 without failed updates) at its start-up stock less all the order
\* deductions logged on that bucket.
C39_PoolReducedByDeductions ==
  [][(calc.pc = "idle" /\ calc'.pc = "done") =>
       \A i \in Invocations :
          (proc[i].status = 200 /\ proc[i].failedUpdates = << >>) =>
             \A k \in 1..Len(proc[i].results) :
                LET key == TargetOf(proc[i].results[k])
                IN MapGetOr0(StockPool(calc'.localMaterials), key)
                     = MapGetOr0(InitPool, key)
                       + SumChange(stockLedger, Len(stockLedger), key)]_vars

====
